---- MODULE Spec2Model ----
(***************************************************************************)
(* Verification model of the claude-web backend services:                  *)
(*   - TerminalSessionManager   (services/terminal-session.ts)              *)
(*   - ClaudeTerminalService and the usage cache (services/claude-usage.ts) *)
(*   - SessionStore             (services/session-store.ts)                 *)
(*   - ClaudeAgentService       (services/claude-agent.ts, routes/agent.ts) *)
(* Each service has its own specification (SpecTerm, SpecUsage, SpecStore); *)
(* the variables of the other services are left unchanged by it.            *)
(***************************************************************************)
EXTENDS Integers, Sequences, FiniteSets, TLC

VARIABLES
    \* ---- TerminalSessionManager ----
    sessions,       \* Map<string, TerminalSession>: session id -> pty id, 0 = no entry
    ptys,           \* every pty process spawned so far: [sid, state]
    tmLast,         \* the last manager call and what it returned
    wsConns,        \* the /terminal WebSocket connections: session id, pty, state
    \* ---- SessionStore ----
    stSessions,     \* Map<string, SessionMetadata>, as its entries in insertion order
    stFile,         \* sessions.json: whether it exists and the persisted array
    stNow,          \* the wall clock read by new Date()
    stFailures,     \* how many writes of sessions.json have failed so far
    stLast,         \* the last store call, its arguments and what it returned
    \* ---- ClaudeTerminalService and the usage cache ----
    usProcs,        \* every "claude" pty process spawned so far: its state
    usStartup,      \* per process: the promise start() returned and its timer
    usPty,          \* this.pty: the process id, 0 = null
    usReady,        \* this.isReady
    usBuf,          \* this.outputBuffer: the markers it holds and whose output it is
    usQueue,        \* this.commandQueue: command ids, oldest first
    usCurrent,      \* this.currentCommand: a command id, 0 = null
    usCmds,         \* every runCommand call so far: its promise and its caller
    usTimeouts,     \* the commands whose timeout timer is armed
    usSettle,       \* the armed settle-delay timers, oldest first: the command each
                    \* captured and how many runCommand calls preceded its arming
    usStarts,       \* the pending start() calls: the boot call and armed auto-restart timers
    usTyped,        \* the commands typed into the pty, in order
    usCached,       \* cachedUsage: the snapshot (by the command that scraped it), 0 = null
    usCacheTs,      \* cacheTimestamp
    usNow,          \* Date.now()
    usLast,         \* the last getCachedClaudeUsage call that returned at once
    usStops,        \* the armed 500 ms timers of stop() calls
    \* ---- text editor tool ----
    edFile,         \* the file at input.path: whether it exists and its content
    edLast,         \* the last handleTextEditorTool call and its result
    \* ---- generateTitle ----
    gtPrompt,       \* the prompt of an upsert that creates a session
    gtTitle,        \* the title generateTitle returned for it
    \* ---- parseUsageOutput ----
    puOutput,       \* the scraped output: its lines after ANSI removal and trim
    puResult,       \* the ClaudeUsageData parseUsageOutput returned for it
    \* ---- buildDirectoryTree ----
    fsDisk,         \* the directory tree on disk under the root path
    fsMaxDepth,     \* the maxDepth argument
    fsResult,       \* the TreeNode[] returned, as the set of its nodes
    \* ---- bash tool ----
    bhProc,         \* the spawned shell: none, running, killed, closed
    bhStdout,       \* stdout: the segments appended so far, each a chunk or the marker
    bhKilled,       \* killed
    bhTimer,        \* the timeout handler is still to run
    bhResult,       \* what the promise of handleBashTool resolved with
    bhLast,         \* the last stdout data event: its chunk length, stdout.length before
    \* ---- Claude Code transcripts ----
    trLines,        \* the lines of a session's .jsonl file
    trMeta,         \* the SessionMetadata listClaudeCodeSessions returned for it
    trChat,         \* the ChatMessage[] getSessionMessages returned for it
    \* ---- ClaudeAgentService and the /stream route ----
    agSessions,     \* Map<string, ConversationSession>: the roles of session.messages
    agCalls,        \* how many executeTask and streamTask calls have been made
    skCall,         \* the streamTask call in progress: where it is and its locals
    skMessages,     \* its `messages` array, the input of the next API call
    skRes,          \* the response of the /stream request: frames written, ended
    skTools,        \* the tool_use ids it passed to executeTool, in order
    tkCall,         \* the executeTask call in progress: where it is and its locals
    tkMessages,     \* its `messages` array
    tkTools,        \* the tool_use ids it passed to executeTool, in order
    tkLast,         \* what the last executeTask call returned or threw
    cfgApiKey,      \* config.anthropicApiKey is set
    cfgRouter,      \* which of the two agent routers the server mounts
    htLast          \* the last HTTP response of the agent router, and how many so far

tmVars == <<sessions, ptys, tmLast, wsConns>>

stVars == <<stSessions, stFile, stNow, stFailures, stLast>>

usVars == <<usProcs, usStartup, usPty, usReady, usBuf, usQueue, usCurrent, usCmds,
            usTimeouts, usSettle, usStarts, usTyped, usCached, usCacheTs, usNow, usLast,
            usStops>>

edVars == <<edFile, edLast>>

gtVars == <<gtPrompt, gtTitle>>

puVars == <<puOutput, puResult>>

fsVars == <<fsDisk, fsMaxDepth, fsResult>>

agVars == <<agSessions, agCalls, skCall, skMessages, skRes, skTools,
            tkCall, tkMessages, tkTools, tkLast, cfgApiKey, cfgRouter, htLast>>

svcVars == <<tmVars, stVars, usVars, agVars>>

\* The inputs and results of the tools and pure functions, which no service
\* action touches.
bhVars == <<bhProc, bhStdout, bhKilled, bhTimer, bhResult, bhLast>>

trVars == <<trLines, trMeta, trChat>>

toolVars == <<edVars, gtVars, puVars, fsVars, bhVars, trVars>>

vars == <<tmVars, stVars, usVars, agVars, toolVars>>

(***************************************************************************)
(* Bounds                                                                  *)
(***************************************************************************)
MaxPty == 3

MaxMessages == 3

MaxTotal == 2

MaxTime == 1

MaxWriteFailures == 1

MaxProc == 2

MaxCmd == 3

MaxSettle == 2

MaxPeriods == 1

MaxContent == 3

MaxArg == 2

MaxPad == 2

MaxLines == 4

MaxLevels == 3

MaxDepthArg == 2

MaxCalls == 2

MaxRounds == 1

MaxBlocks == 2

MaxDeltas == 1

MaxRequests == 3

MaxStops == 1

MaxConn == 2

MaxChunks == 4

(***************************************************************************)
(*                      TerminalSessionManager                             *)
(***************************************************************************)
SessionIds == {"s1", "s2"}

PtyIds == 1..MaxPty

NoPty == 0

\* A pty process is live from spawn until it is killed or exits by itself; a
\* killed process is gone once its exit event has been delivered.
LivePtys(id) == {p \in PtyIds : ptys[p].state = "running" /\ ptys[p].sid = id}

NextPty == Cardinality({p \in PtyIds : ptys[p].state # "unspawned"}) + 1

\* A pty process that has not been spawned yet, and one as pty.spawn returns
\* it for the session `id`: running, nothing written to it, 80 x 24.
NoProcess ==
    [sid |-> "none", state |-> "unspawned", input |-> "", size |-> <<0, 0>>]

Spawned(id) ==
    [sid |-> id, state |-> "running", input |-> "", size |-> <<80, 24>>]

ConnIds == 1..MaxConn

\* A connection the server has not accepted yet.
NoConn == [sid |-> "none", pty |-> NoPty, state |-> "none"]

NextConn == Cardinality({c \in ConnIds : wsConns[c].state # "none"}) + 1

TmInit ==
    /\ sessions = [id \in SessionIds |-> NoPty]
    /\ ptys = [p \in PtyIds |-> NoProcess]
    /\ tmLast = [op |-> "init", id |-> "none", ret |-> FALSE]
    /\ wsConns = [c \in ConnIds |-> NoConn]

\* kill(sessionId) as a function of the state: the map and the ptys after it.
\* pty.kill() only signals the process; its exit event is delivered later.
KillPtys(ps, ss, id) ==
    IF ss[id] = NoPty THEN ps
    ELSE [ps EXCEPT ![ss[id]].state = "killed"]

KillSessions(ss, id) == [ss EXCEPT ![id] = NoPty]

\* create(sessionId, cwd, onData, onExit)
Create(id, spawnOk) ==
    /\ NextPty <= MaxPty
    /\ LET ps1 == KillPtys(ptys, sessions, id)
           ss1 == KillSessions(sessions, id)
           p   == NextPty
       IN  IF spawnOk
           THEN /\ ptys' = [ps1 EXCEPT ![p] = Spawned(id)]
                /\ sessions' = [ss1 EXCEPT ![id] = p]
                /\ tmLast' = [op |-> "create", id |-> id, ret |-> TRUE]
           ELSE \* pty.spawn threw: onData(message), onExit(1), return null
                /\ ptys' = ps1
                /\ sessions' = ss1
                /\ tmLast' = [op |-> "create", id |-> id, ret |-> FALSE]
    /\ UNCHANGED <<stVars, usVars, agVars, toolVars, wsConns>>

\* kill(sessionId)
Kill(id) ==
    /\ ptys' = KillPtys(ptys, sessions, id)
    /\ sessions' = KillSessions(sessions, id)
    /\ tmLast' = [op |-> "kill", id |-> id, ret |-> sessions[id] # NoPty]
    /\ UNCHANGED <<stVars, usVars, agVars, toolVars, wsConns>>

\* The data of an "input" message and the sizes of a "resize" message.
TermData == {"ls"}

TermSizes == {<<120, 40>>}

\* session.pty.write(data)
WritePtys_All(ps, ss, id, data) ==
    [p \in PtyIds |-> IF ps[p].state = "running"
                      THEN [ps[p] EXCEPT !.input = data] ELSE ps[p]]

WritePtys(ps, ss, id, data) ==
    IF ss[id] = NoPty THEN ps
    ELSE [ps EXCEPT ![ss[id]].input = data]

\* write(sessionId, data)
Write(id, data) ==
    /\ ptys' = WritePtys(ptys, sessions, id, data)
    /\ tmLast' = [op |-> "write", id |-> id, ret |-> sessions[id] # NoPty]
    /\ UNCHANGED sessions
    /\ UNCHANGED <<stVars, usVars, agVars, toolVars, wsConns>>

\* session.pty.resize(cols, rows)
ResizePtys(ps, ss, id, size) ==
    IF ss[id] = NoPty THEN ps
    ELSE [ps EXCEPT ![ss[id]].size = size]

\* resize(sessionId, cols, rows)
Resize(id, size) ==
    /\ ptys' = ResizePtys(ptys, sessions, id, size)
    /\ tmLast' = [op |-> "resize", id |-> id, ret |-> sessions[id] # NoPty]
    /\ UNCHANGED sessions
    /\ UNCHANGED <<stVars, usVars, agVars, toolVars, wsConns>>

\* The entry the exit handler of a pty created for `sid` removes.
ExitDeletes(ss, sid, p) == [ss EXCEPT ![sid] = NoPty]

\* ptyProcess.onExit(({exitCode}) => { this.sessions.delete(sessionId); onExit(exitCode) })
\* delivered for a process that exited by itself or was killed.
PtyExit(p) ==
    /\ ptys[p].state \in {"running", "killed"}
    /\ ptys' = [ptys EXCEPT ![p].state = "exited"]
    /\ sessions' = ExitDeletes(sessions, ptys[p].sid, p)
    /\ tmLast' = [op |-> "exit", id |-> ptys[p].sid, ret |-> TRUE]
    /\ UNCHANGED <<stVars, usVars, agVars, toolVars, wsConns>>

WsFrame == UNCHANGED <<stVars, usVars, agVars, toolVars>>

\* wss.on("connection"): create(sessionId, cwd, onData, onExit) and, when it
\* returned a session, the message, close and error handlers. When
\* pty.spawn threw, the route closes the socket and registers no handler.
WsConnect(id, spawnOk) ==
    /\ NextConn <= MaxConn
    /\ NextPty <= MaxPty
    /\ LET ps1 == KillPtys(ptys, sessions, id)
           ss1 == KillSessions(sessions, id)
           p   == NextPty
           c   == NextConn
       IN  IF spawnOk
           THEN /\ ptys' = [ps1 EXCEPT ![p] = Spawned(id)]
                /\ sessions' = [ss1 EXCEPT ![id] = p]
                /\ wsConns' = [wsConns EXCEPT ![c] = [sid |-> id, pty |-> p, state |-> "open"]]
                /\ tmLast' = [op |-> "create", id |-> id, ret |-> TRUE]
           ELSE /\ ptys' = ps1
                /\ sessions' = ss1
                /\ wsConns' = [wsConns EXCEPT ![c] = [sid |-> id, pty |-> NoPty, state |-> "closed"]]
                /\ tmLast' = [op |-> "create", id |-> id, ret |-> FALSE]
    /\ WsFrame

\* ws.on("error"): terminalManager.kill(sessionId); the close event follows
WsError(c) ==
    /\ wsConns[c].state = "open"
    /\ ptys' = KillPtys(ptys, sessions, wsConns[c].sid)
    /\ sessions' = KillSessions(sessions, wsConns[c].sid)
    /\ tmLast' = [op |-> "kill", id |-> wsConns[c].sid, ret |-> sessions[wsConns[c].sid] # NoPty]
    /\ wsConns' = [wsConns EXCEPT ![c].state = "errored"]
    /\ WsFrame

\* ws.on("close"), after the client, an error or ws.close() closed the socket:
\* terminalManager.kill(sessionId)
WsClose(c) ==
    /\ wsConns[c].state \in {"open", "errored", "closing"}
    /\ ptys' = KillPtys(ptys, sessions, wsConns[c].sid)
    /\ sessions' = KillSessions(sessions, wsConns[c].sid)
    /\ tmLast' = [op |-> "kill", id |-> wsConns[c].sid, ret |-> sessions[wsConns[c].sid] # NoPty]
    /\ wsConns' = [wsConns EXCEPT ![c].state = "closed"]
    /\ WsFrame

\* The exit event of a pty a connection created: the manager's handler, then
\* the route's onExit, which sends "exit" and calls ws.close() on an open socket.
WsPtyExit(p) ==
    /\ ptys[p].state \in {"running", "killed"}
    /\ ptys' = [ptys EXCEPT ![p].state = "exited"]
    /\ sessions' = ExitDeletes(sessions, ptys[p].sid, p)
    /\ tmLast' = [op |-> "exit", id |-> ptys[p].sid, ret |-> TRUE]
    /\ wsConns' = [c \in ConnIds |->
                     IF wsConns[c].pty = p /\ wsConns[c].state = "open"
                     THEN [wsConns[c] EXCEPT !.state = "closing"]
                     ELSE wsConns[c]]
    /\ WsFrame

WsNext ==
    \/ \E id \in SessionIds, ok \in BOOLEAN : WsConnect(id, ok)
    \/ \E c \in ConnIds : WsError(c)
    \/ \E c \in ConnIds : WsClose(c)
    \/ \E p \in PtyIds : WsPtyExit(p)

TmNext ==
    \/ \E id \in SessionIds, ok \in BOOLEAN : Create(id, ok)
    \/ \E id \in SessionIds : Kill(id)
    \/ \E id \in SessionIds, data \in TermData : Write(id, data)
    \/ \E id \in SessionIds, size \in TermSizes : Resize(id, size)
    \/ \E p \in PtyIds : PtyExit(p)

(***************************************************************************)
(*                           SessionStore                                  *)
(***************************************************************************)
StoreIds == {"a", "b"}

\* The (first prompt, working directory) pairs callers pass: prompts are
\* character sequences, one with whitespace runs and ends to clean.
CallArgs ==
    { [prompt |-> <<"h", "i">>, directory |-> "/w1"],
      [prompt |-> <<" ", "a", " ", "\t", "b", " ">>, directory |-> "/w2"] }

NoUsage == [none |-> TRUE]

NoCost == -1

\* getClaudeCodeUsage() returning null
NoStats == [nostats |-> TRUE]

\* usage?: { input, output, costUsd? }; token counts and cost are never negative.
Usages == { [input |-> 1, output |-> 0, costUsd |-> NoCost],
            [input |-> 0, output |-> 1, costUsd |-> 1] }

maxLength == 50

IsSpace(c) == c \in {" ", "\t", "\n", "\r"}

RECURSIVE SkipSpace(_)
SkipSpace(s) ==
    IF s = <<>> THEN <<>>
    ELSE IF IsSpace(Head(s)) THEN SkipSpace(Tail(s)) ELSE s

\* prompt.replace(/\s+/g, " ")
RECURSIVE CollapseSpace(_)
CollapseSpace(s) ==
    IF s = <<>> THEN <<>>
    ELSE IF IsSpace(Head(s)) THEN <<" ">> \o CollapseSpace(SkipSpace(s))
    ELSE <<Head(s)>> \o CollapseSpace(Tail(s))

RECURSIVE TrimEnd(_)
TrimEnd(s) ==
    IF s = <<>> THEN <<>>
    ELSE IF IsSpace(s[Len(s)]) THEN TrimEnd(SubSeq(s, 1, Len(s) - 1)) ELSE s

\* String.prototype.trim
Trim(s) == TrimEnd(SkipSpace(s))

generateTitle_Strict(prompt) ==
    LET cleaned == Trim(CollapseSpace(prompt))
    IN  IF Len(cleaned) < maxLength THEN cleaned
        ELSE SubSeq(cleaned, 1, maxLength) \o <<".", ".", ".">>

\* generateTitle(prompt)
generateTitle(prompt) ==
    LET cleaned == Trim(CollapseSpace(prompt))
    IN  IF Len(cleaned) <= maxLength THEN cleaned
        ELSE SubSeq(cleaned, 1, maxLength) \o <<".", ".", ".">>

\* usage.costUsd || 0
CostOf(usage) == IF usage.costUsd = NoCost THEN 0 ELSE usage.costUsd

\* this.sessions.has(id) / this.sessions.get(id) on the insertion-ordered entries
StHas(ss, id) == \E i \in 1..Len(ss) : ss[i].id = id

StIndex(ss, id) == CHOOSE i \in 1..Len(ss) : ss[i].id = id

StGet(id) == stSessions[StIndex(stSessions, id)]

StatsAbsent == [kind |-> "absent", modelUsage |-> <<>>]

StatsMalformed == [kind |-> "malformed", modelUsage |-> <<>>]

\* The store after construction on a machine without sessions.json; `failed`
\* is the number of writes the disk has already refused.
StInitWith(failed) ==
    /\ stSessions = <<>>
    /\ stFile = [exists |-> FALSE, data |-> <<>>]
    /\ stNow = 0
    /\ stFailures = failed
    /\ stLast = [op |-> "init", id |-> "none", known |-> FALSE, hasUsage |-> FALSE,
                 saved |-> FALSE, stats |-> "none", ret |-> NoStats]

\* save(): rewrite the whole file from the map; a failed write is logged and
\* swallowed and leaves the file as it was.
\* Mutant: the file is written once and never rewritten.
SaveFile_Once(ss, ok) ==
    IF ok /\ ~stFile.exists THEN [exists |-> TRUE, data |-> ss] ELSE stFile

SaveFile(ss, ok) == IF ok THEN [exists |-> TRUE, data |-> ss] ELSE stFile

Save(ss, ok) ==
    /\ ~ok => stFailures < MaxWriteFailures
    /\ stFile' = SaveFile(ss, ok)
    /\ stFailures' = IF ok THEN stFailures ELSE stFailures + 1

\* Mutant: the totals are assigned from this turn's usage instead of added to.
UpsertExisting_Reset(e, usage) ==
    IF usage = NoUsage
    THEN [e EXCEPT !.messageCount = @ + 1, !.lastActivity = stNow]
    ELSE [e EXCEPT !.messageCount = @ + 1, !.lastActivity = stNow,
                   !.input = usage.input, !.output = usage.output,
                   !.cost = CostOf(usage)]

\* The record upsert leaves for a known id.
UpsertExisting(e, usage) ==
    IF usage = NoUsage
    THEN [e EXCEPT !.messageCount = @ + 1, !.lastActivity = stNow]
    ELSE [e EXCEPT !.messageCount = @ + 1, !.lastActivity = stNow,
                   !.input = @ + usage.input, !.output = @ + usage.output,
                   !.cost = @ + CostOf(usage)]

\* Mutant: a new record starts counting its messages at 0.
UpsertNew_ZeroCount(id, prompt, directory, usage) ==
    [id |-> id, title |-> generateTitle(prompt), directory |-> directory,
     messageCount |-> 0, createdAt |-> stNow, lastActivity |-> stNow,
     input |-> IF usage = NoUsage THEN 0 ELSE usage.input,
     output |-> IF usage = NoUsage THEN 0 ELSE usage.output,
     cost |-> IF usage = NoUsage THEN 0 ELSE CostOf(usage)]

\* The record upsert creates for an unknown id.
UpsertNew(id, prompt, directory, usage) ==
    [id |-> id, title |-> generateTitle(prompt), directory |-> directory,
     messageCount |-> 1, createdAt |-> stNow, lastActivity |-> stNow,
     input |-> IF usage = NoUsage THEN 0 ELSE usage.input,
     output |-> IF usage = NoUsage THEN 0 ELSE usage.output,
     cost |-> IF usage = NoUsage THEN 0 ELSE CostOf(usage)]

RECURSIVE Sum(_)
Sum(ns) == IF ns = <<>> THEN 0 ELSE Head(ns) + Sum(Tail(ns))

\* The bounds of the model: messages and tokens over all sessions.
WithinBounds(ss) ==
    /\ Sum([i \in 1..Len(ss) |-> ss[i].messageCount]) <= MaxMessages
    /\ Sum([i \in 1..Len(ss) |-> ss[i].input + ss[i].output]) <= MaxTotal

\* upsert(id, prompt, directory, usage?)
Upsert(id, prompt, directory, usage, saveOk) ==
    LET known == StHas(stSessions, id)
        rec == IF known THEN UpsertExisting(StGet(id), usage)
               ELSE UpsertNew(id, prompt, directory, usage)
        ss == IF known THEN [stSessions EXCEPT ![StIndex(stSessions, id)] = rec]
              ELSE Append(stSessions, rec)
    IN  /\ WithinBounds(ss)
        /\ stSessions' = ss
        /\ Save(ss, saveOk)
        /\ stLast' = [op |-> "upsert", id |-> id, known |-> known,
                      hasUsage |-> usage # NoUsage, saved |-> TRUE, stats |-> "none", ret |-> NoStats]
        /\ UNCHANGED <<stNow, tmVars, usVars, agVars, toolVars>>

\* Mutant: costUsd is added without the `|| 0` default.
AddUsage_RawCost(e, usage) ==
    [e EXCEPT !.input = @ + usage.input, !.output = @ + usage.output,
              !.cost = @ + usage.costUsd, !.lastActivity = stNow]

\* The record updateUsage leaves for a known id.
AddUsage(e, usage) ==
    [e EXCEPT !.input = @ + usage.input, !.output = @ + usage.output,
              !.cost = @ + CostOf(usage), !.lastActivity = stNow]

\* updateUsage(id, usage)
UpdateUsage(id, usage, saveOk) ==
    LET known == StHas(stSessions, id)
        ss == IF known
              THEN [stSessions EXCEPT ![StIndex(stSessions, id)] = AddUsage(StGet(id), usage)]
              ELSE stSessions
    IN  /\ WithinBounds(ss)
        /\ stSessions' = ss
        /\ IF known THEN Save(ss, saveOk) ELSE (saveOk /\ UNCHANGED <<stFile, stFailures>>)
        /\ stLast' = [op |-> "updateUsage", id |-> id, known |-> known,
                      hasUsage |-> TRUE, saved |-> known, stats |-> "none", ret |-> NoStats]
        /\ UNCHANGED <<stNow, tmVars, usVars, agVars, toolVars>>

\* Map.prototype.delete on the entries
RemoveId(ss, id) == SelectSeq(ss, LAMBDA r : r.id # id)

\* delete(id)
Delete(id, saveOk) ==
    LET known == StHas(stSessions, id)
        ss == RemoveId(stSessions, id)
    IN  /\ stSessions' = ss
        /\ IF known THEN Save(ss, saveOk) ELSE (saveOk /\ UNCHANGED <<stFile, stFailures>>)
        /\ stLast' = [op |-> "delete", id |-> id, known |-> known,
                      hasUsage |-> FALSE, saved |-> known, stats |-> "none", ret |-> NoStats]
        /\ UNCHANGED <<stNow, tmVars, usVars, agVars, toolVars>>

\* One stats-cache.json with a modelUsage of two models, and one with none.
StatsFiles ==
    { [kind |-> "ok", modelUsage |->
        <<[inputTokens |-> 1, outputTokens |-> 2, cacheReadInputTokens |-> 1,
           cacheCreationInputTokens |-> 0, costUSD |-> 1],
          [inputTokens |-> 0, outputTokens |-> 1, cacheReadInputTokens |-> 0,
           cacheCreationInputTokens |-> 2, costUSD |-> 0]>>] }

\* getClaudeCodeUsage(): null when the file is absent or does not parse
getClaudeCodeUsage(stats) ==
    IF stats.kind # "ok" THEN NoStats
    ELSE LET m == stats.modelUsage
         IN  [input |-> Sum([i \in 1..Len(m) |->
                               m[i].inputTokens + m[i].cacheReadInputTokens
                               + m[i].cacheCreationInputTokens]),
              output |-> Sum([i \in 1..Len(m) |-> m[i].outputTokens]),
              costUsd |-> Sum([i \in 1..Len(m) |-> m[i].costUSD])]

\* Mutant: the loop stops one session early.
SessionTotals_SkipLast(ss) ==
    [input |-> Sum([i \in 1..(Len(ss) - 1) |-> ss[i].input]),
     output |-> Sum([i \in 1..(Len(ss) - 1) |-> ss[i].output]),
     costUsd |-> Sum([i \in 1..(Len(ss) - 1) |-> ss[i].cost])]

\* The fallback of getTotalUsage: the loop over this.sessions.values()
SessionTotals(ss) ==
    [input |-> Sum([i \in 1..Len(ss) |-> ss[i].input]),
     output |-> Sum([i \in 1..Len(ss) |-> ss[i].output]),
     costUsd |-> Sum([i \in 1..Len(ss) |-> ss[i].cost])]

\* getTotalUsage() as a function of the stats file and the map
TotalUsage(stats, ss) ==
    IF getClaudeCodeUsage(stats) # NoStats THEN getClaudeCodeUsage(stats)
    ELSE SessionTotals(ss)

\* getTotalUsage(), with the stats file as the external CLI left it
GetTotalUsage(stats) ==
    /\ stLast' = [op |-> "getTotalUsage", id |-> "none", known |-> FALSE,
                  hasUsage |-> FALSE, saved |-> FALSE, stats |-> stats.kind,
                  ret |-> TotalUsage(stats, stSessions)]
    /\ UNCHANGED <<stSessions, stFile, stNow, stFailures, tmVars, usVars, agVars, toolVars>>

\* Time passes between two calls.
StTick ==
    /\ stNow < MaxTime
    /\ stNow' = stNow + 1
    /\ UNCHANGED <<stSessions, stFile, stFailures, stLast, tmVars, usVars, agVars, toolVars>>

StNext ==
    \/ \E id \in StoreIds, a \in CallArgs, u \in Usages \cup {NoUsage}, ok \in BOOLEAN :
          Upsert(id, a.prompt, a.directory, u, ok)
    \/ \E id \in StoreIds, u \in Usages, ok \in BOOLEAN : UpdateUsage(id, u, ok)
    \/ \E id \in StoreIds, ok \in BOOLEAN : Delete(id, ok)
    \/ \E stats \in {StatsAbsent, StatsMalformed} \cup StatsFiles : GetTotalUsage(stats)
    \/ StTick

(***************************************************************************)
(*            ClaudeTerminalService and the usage cache                    *)
(***************************************************************************)
ProcIds == 1..MaxProc

CmdIds == 1..MaxCmd

NoProc == 0

NoCmd == 0

\* The error a getCachedClaudeUsage call ends with, as a return value.
Err == -1

CACHE_TTL == 30000

\* Every caller goes through getUsage(): runCommand("/usage", 10000).
CommandText(c) == "/usage"

\* Chunks of pty output: a prompt redraw holding the ready hint
\* "for shortcuts", and a usage panel holding "% used" and "Resets".
ChunkKinds == {"ready", "usage"}

EmptyBuf == [ready |-> FALSE, usage |-> FALSE, owners |-> {}, marked |-> {}]

\* this.outputBuffer += data, with the command that is current as the data arrives
\* and the process p that wrote it; marked holds the processes whose output in
\* the buffer contains the ready hint
AppendData(buf, kind, cur, p) ==
    [ready |-> buf.ready \/ kind = "ready",
     usage |-> buf.usage \/ kind = "usage",
     owners |-> buf.owners \cup {cur},
     marked |-> IF kind = "ready" THEN buf.marked \cup {p} ELSE buf.marked]

\* The instants at which the clock is read: the start of the run and, per
\* cache period, the last millisecond before and the first at the TTL.
StartTime == CACHE_TTL + CACHE_TTL

Instants ==
    {StartTime} \cup
    {StartTime + k * CACHE_TTL - e : k \in 1..MaxPeriods, e \in {0, 1}}

NextProc == Cardinality({p \in ProcIds : usProcs[p] # "unspawned"}) + 1

NextCmd == Cardinality({c \in CmdIds : usCmds[c].status # "unused"}) + 1

UsInit ==
    /\ usProcs = [p \in ProcIds |-> "unspawned"]
    /\ usStartup = [p \in ProcIds |-> "none"]
    /\ usPty = NoProc
    /\ usReady = FALSE
    /\ usBuf = EmptyBuf
    /\ usQueue = <<>>
    /\ usCurrent = NoCmd
    /\ usCmds = [c \in CmdIds |-> [status |-> "unused", out |-> {}, now |-> 0, ret |-> 0]]
    /\ usTimeouts = {}
    /\ usSettle = <<>>
    /\ usStarts = 1
    /\ usTyped = <<>>
    /\ usCached = NoCmd
    /\ usCacheTs = 0
    /\ usNow = StartTime
    /\ usLast = [op |-> "init", path |-> "none", ret |-> 0]
    /\ usStops = 0

UsFrame == UNCHANGED <<tmVars, stVars, agVars, toolVars, usStops>>

\* start(), called by the listen callback at boot or by an auto-restart timer
StartBody(spawnOk) ==
    /\ IF usPty # NoProc \/ ~spawnOk
       THEN \* already running, or pty.spawn threw inside the promise executor
            UNCHANGED <<usProcs, usStartup, usPty>>
       ELSE /\ NextProc <= MaxProc
            /\ usProcs' = [usProcs EXCEPT ![NextProc] = "running"]
            /\ usStartup' = [usStartup EXCEPT ![NextProc] = "pending"]
            /\ usPty' = NextProc
    /\ UNCHANGED <<usReady, usBuf, usQueue, usCurrent, usCmds, usTimeouts, usSettle,
                   usTyped, usCached, usCacheTs, usNow, usLast>>
    /\ UsFrame

Start(spawnOk) ==
    /\ usStarts > 0
    /\ usStarts' = usStarts - 1
    /\ StartBody(spawnOk)

\* The startup timeout of the start() call that spawned p fires after 30 s.
StartupTimeout(p) ==
    /\ usStartup[p] = "pending"
    /\ usStartup' = [usStartup EXCEPT ![p] = IF usReady THEN "lapsed" ELSE "rejected"]
    /\ UNCHANGED <<usProcs, usPty, usReady, usBuf, usQueue, usCurrent, usCmds, usTimeouts,
                   usSettle, usStarts, usTyped, usCached, usCacheTs, usNow, usLast>>
    /\ UsFrame

\* checkCommandCompletion(): whether it arms a settle-delay timer
CompletionSeen(cur, buf) ==
    /\ cur # NoCmd
    /\ CommandText(cur) = "/usage"
    /\ buf.usage

\* this.pty.onData handler of process p
PtyData(p, kind) ==
    LET buf == AppendData(usBuf, kind, usCurrent, p)
        becomesReady == ~usReady /\ buf.ready
    IN  /\ usProcs[p] = "running"
        /\ usBuf' = buf
        /\ usReady' = (usReady \/ becomesReady)
        /\ usStartup' = IF becomesReady /\ usStartup[p] \in {"pending", "lapsed"}
                        THEN [usStartup EXCEPT ![p] = "resolved"]
                        ELSE usStartup
        /\ IF CompletionSeen(usCurrent, buf)
           THEN /\ Len(usSettle) < MaxSettle
                /\ usSettle' = Append(usSettle, [cmd |-> usCurrent, calls |-> NextCmd - 1])
           ELSE UNCHANGED usSettle
        /\ UNCHANGED <<usProcs, usPty, usQueue, usCurrent, usCmds, usTimeouts, usStarts,
                       usTyped, usCached, usCacheTs, usNow, usLast>>
        /\ UsFrame

FailureReturn_AlwaysThrows(cached) == Err

\* What a failed scrape makes getCachedClaudeUsage return: the cached
\* snapshot when there is one, else the error.
FailureReturn(cached) == IF cached # NoCmd THEN cached ELSE Err

\* Mutant: reject is never called.
Reject_Never(cmds, c, why) == cmds

\* reject(error) on the promise of command c, and the caller's catch block
Reject(cmds, c, why) ==
    IF cmds[c].status = "pending"
    THEN [cmds EXCEPT ![c].status = why, ![c].ret = FailureReturn(usCached)]
    ELSE cmds

RejectAll_CurrentOnly(cmds, cs, why) ==
    IF cs = <<>> THEN cmds ELSE Reject(cmds, Head(cs), why)

RECURSIVE RejectAll(_, _, _)
RejectAll(cmds, cs, why) ==
    IF cs = <<>> THEN cmds
    ELSE RejectAll(Reject(cmds, Head(cs), why), Tail(cs), why)

SeqToSet(q) == {q[i] : i \in 1..Len(q)}

\* The commands the onExit handler rejects: the current one, then the queue.
ExitRejected(cur, queue) == (IF cur # NoCmd THEN <<cur>> ELSE <<>>) \o queue

\* this.pty.onExit handler, for a process that exited by itself or was killed
UsPtyExit(p) ==
    /\ usProcs[p] \in {"running", "killed"}
    /\ usProcs' = [usProcs EXCEPT ![p] = "exited"]
    /\ usReady' = FALSE
    /\ usPty' = NoProc
    /\ usCmds' = RejectAll(usCmds, ExitRejected(usCurrent, usQueue), "exited")
    /\ usTimeouts' = usTimeouts \ SeqToSet(ExitRejected(usCurrent, usQueue))
    /\ usCurrent' = NoCmd
    /\ usQueue' = <<>>
    /\ usStarts' = usStarts + 1
    /\ UNCHANGED <<usStartup, usBuf, usSettle, usTyped, usCached, usCacheTs, usNow, usLast>>
    /\ UsFrame

\* processQueue() and executeCommand() on [cur, queue, buf, typed]
ProcessQueue(st) ==
    IF st.cur # NoCmd \/ st.queue = <<>> THEN st
    ELSE [cur |-> Head(st.queue),
          queue |-> Tail(st.queue),
          buf |-> EmptyBuf,
          typed |-> IF usPty # NoProc /\ usReady
                    THEN Append(st.typed, Head(st.queue)) ELSE st.typed]

\* The callback of the oldest settle-delay timer, armed while command c was current
SettleFires ==
    /\ usSettle # <<>>
    /\ LET c == Head(usSettle).cmd
           resolves == usCmds[c].status = "pending"
           st == ProcessQueue([cur |-> NoCmd, queue |-> usQueue,
                               buf |-> EmptyBuf, typed |-> usTyped])
       IN  /\ usSettle' = Tail(usSettle)
           /\ usTimeouts' = usTimeouts \ {c}
           /\ usCmds' = IF resolves
                        THEN [usCmds EXCEPT ![c].status = "resolved",
                                            ![c].out = usBuf.owners,
                                            ![c].ret = c]
                        ELSE usCmds
           /\ usCached' = IF resolves THEN c ELSE usCached
           /\ usCacheTs' = IF resolves THEN usCmds[c].now ELSE usCacheTs
           /\ usCurrent' = st.cur
           /\ usQueue' = st.queue
           /\ usBuf' = st.buf
           /\ usTyped' = st.typed
    /\ UNCHANGED <<usProcs, usStartup, usPty, usReady, usStarts, usNow, usLast>>
    /\ UsFrame

\* commandQueue.findIndex(c => c.command === command), 0 when there is none
FindIndex(queue, text) ==
    IF \E i \in 1..Len(queue) : CommandText(queue[i]) = text
    THEN CHOOSE i \in 1..Len(queue) :
            /\ CommandText(queue[i]) = text
            /\ \A j \in 1..(i - 1) : CommandText(queue[j]) # text
    ELSE 0

\* commandQueue.splice(idx, 1)
Splice(queue, idx) ==
    IF idx = 0 THEN queue
    ELSE SubSeq(queue, 1, idx - 1) \o SubSeq(queue, idx + 1, Len(queue))

\* The timeout callback of command c: every timeout runs 10 s, so the oldest
\* armed one fires first, and after every 1 s settle-delay timer that was
\* armed before runCommand armed it.
TimeoutFires ==
    /\ usTimeouts # {}
    /\ LET c == CHOOSE x \in usTimeouts : \A y \in usTimeouts : x <= y
       IN  \A i \in 1..Len(usSettle) : usSettle[i].calls >= c
    /\ LET c == CHOOSE x \in usTimeouts : \A y \in usTimeouts : x <= y
           q1 == Splice(usQueue, FindIndex(usQueue, CommandText(c)))
           clears == usCurrent # NoCmd /\ CommandText(usCurrent) = CommandText(c)
           st == IF clears
                 THEN ProcessQueue([cur |-> NoCmd, queue |-> q1,
                                    buf |-> usBuf, typed |-> usTyped])
                 ELSE [cur |-> usCurrent, queue |-> q1, buf |-> usBuf, typed |-> usTyped]
       IN  /\ usTimeouts' = usTimeouts \ {c}
           /\ usCurrent' = st.cur
           /\ usQueue' = st.queue
           /\ usBuf' = st.buf
           /\ usTyped' = st.typed
           /\ usCmds' = Reject(usCmds, c, "timeout")
    /\ UNCHANGED <<usProcs, usStartup, usPty, usReady, usSettle, usStarts,
                   usCached, usCacheTs, usNow, usLast>>
    /\ UsFrame

CacheFresh_Inclusive(cached, ts, now) == cached # NoCmd /\ now - ts <= CACHE_TTL

\* cachedUsage && now - cacheTimestamp < CACHE_TTL
CacheFresh(cached, ts, now) == cached # NoCmd /\ now - ts < CACHE_TTL

\* getCachedClaudeUsage(): up to the return, the throw or the await
GetCachedClaudeUsage ==
    IF CacheFresh(usCached, usCacheTs, usNow)
    THEN /\ usLast' = [op |-> "getCached", path |-> "hit", ret |-> usCached]
         /\ UNCHANGED <<usProcs, usStartup, usPty, usReady, usBuf, usQueue, usCurrent,
                        usCmds, usTimeouts, usSettle, usStarts, usTyped, usCached,
                        usCacheTs, usNow>>
         /\ UsFrame
    ELSE IF ~usReady \/ usPty = NoProc
    THEN \* getClaudeUsage() or runCommand() throws "not ready"
         /\ usLast' = [op |-> "getCached", path |-> "notReady",
                       ret |-> FailureReturn(usCached)]
         /\ UNCHANGED <<usProcs, usStartup, usPty, usReady, usBuf, usQueue, usCurrent,
                        usCmds, usTimeouts, usSettle, usStarts, usTyped, usCached,
                        usCacheTs, usNow>>
         /\ UsFrame
    ELSE \* runCommand("/usage", 10000): arm the timeout, push, processQueue
         /\ NextCmd <= MaxCmd
         /\ LET c == NextCmd
                st == ProcessQueue([cur |-> usCurrent, queue |-> Append(usQueue, c),
                                    buf |-> usBuf, typed |-> usTyped])
            IN  /\ usCmds' = [usCmds EXCEPT ![c] = [status |-> "pending", out |-> {},
                                                     now |-> usNow, ret |-> 0]]
                /\ usTimeouts' = usTimeouts \cup {c}
                /\ usCurrent' = st.cur
                /\ usQueue' = st.queue
                /\ usBuf' = st.buf
                /\ usTyped' = st.typed
         /\ usLast' = [op |-> "getCached", path |-> "scrape", ret |-> 0]
         /\ UNCHANGED <<usProcs, usStartup, usPty, usReady, usSettle, usStarts,
                        usCached, usCacheTs, usNow>>
         /\ UsFrame

\* runCommand's timeout (claude-usage.ts:300) and the settle delay are timers
\* of at most COMMAND_TIMEOUT ms.
COMMAND_TIMEOUT == 10000

\* Time passes to a later instant; a timer armed now fires before an
\* instant that lies beyond its delay.
UsTick(t) ==
    /\ t > usNow
    /\ t - usNow >= COMMAND_TIMEOUT => usTimeouts = {} /\ usSettle = <<>>
    /\ usNow' = t
    /\ UNCHANGED <<usProcs, usStartup, usPty, usReady, usBuf, usQueue, usCurrent, usCmds,
                   usTimeouts, usSettle, usStarts, usTyped, usCached, usCacheTs, usLast>>
    /\ UsFrame

\* The variables of the command queue and the cache, which start() and
\* stop() do not touch.
UsQueueVars ==
    <<usStartup, usBuf, usQueue, usCurrent, usCmds, usTimeouts, usSettle, usTyped,
      usCached, usCacheTs, usNow, usLast>>

\* start() called while the service runs by a caller other than the listen
\* callback and the auto-restart timer.
StartCall(spawnOk) ==
    /\ StartBody(spawnOk)
    /\ UNCHANGED usStarts

\* stop(): with a pty, write Ctrl+C twice and "/exit", and arm the kill timer
Stop ==
    /\ usPty # NoProc
    /\ usStops < MaxStops
    /\ usStops' = usStops + 1
    /\ UNCHANGED <<usProcs, usPty, usReady, usStarts, UsQueueVars>>
    /\ UNCHANGED <<tmVars, stVars, agVars, toolVars>>

\* The timer of stop(): this.pty?.kill(); this.pty = null; this.isReady = false
StopTimer ==
    /\ usStops > 0
    /\ usStops' = usStops - 1
    /\ usProcs' = IF usPty # NoProc THEN [usProcs EXCEPT ![usPty] = "killed"] ELSE usProcs
    /\ usPty' = NoProc
    /\ usReady' = FALSE
    /\ UNCHANGED <<usStarts, UsQueueVars>>
    /\ UNCHANGED <<tmVars, stVars, agVars, toolVars>>

UsCalls ==
    \/ \E ok \in BOOLEAN : Start(ok)
    \/ \E p \in ProcIds : StartupTimeout(p)
    \/ \E p \in ProcIds, k \in ChunkKinds : PtyData(p, k)
    \/ \E p \in ProcIds : UsPtyExit(p)
    \/ SettleFires
    \/ TimeoutFires
    \/ GetCachedClaudeUsage

\* The life of the pty process: the start() and stop() callers, the timers
\* and the events of the process, with no command under way.
UsLifecycle ==
    \/ \E ok \in BOOLEAN : Start(ok)
    \/ \E ok \in BOOLEAN : StartCall(ok)
    \/ \E p \in ProcIds : StartupTimeout(p)
    \/ \E p \in ProcIds, k \in ChunkKinds : PtyData(p, k)
    \/ \E p \in ProcIds : UsPtyExit(p)
    \/ Stop
    \/ StopTimer

UsNext ==
    \/ \E ok \in BOOLEAN : Start(ok)
    \/ \E p \in ProcIds : StartupTimeout(p)
    \/ \E p \in ProcIds, k \in ChunkKinds : PtyData(p, k)
    \/ \E p \in ProcIds : UsPtyExit(p)
    \/ SettleFires
    \/ TimeoutFires
    \/ GetCachedClaudeUsage
    \/ \E t \in Instants : UsTick(t)

(***************************************************************************)
(*                 Text editor tool: str_replace                           *)
(***************************************************************************)
\* File contents and arguments are strings over these characters.
Chars == {"a", "$", "&"}

RECURSIVE Strings(_)
Strings(n) ==
    IF n = 0 THEN {<<>>}
    ELSE LET shorter == Strings(n - 1)
         IN  shorter \cup {Append(t, ch) : t \in shorter, ch \in Chars}

MatchAt(content, old, i) ==
    /\ i >= 1
    /\ i + Len(old) - 1 <= Len(content)
    /\ SubSeq(content, i, i + Len(old) - 1) = old

\* content.indexOf(old, from - 1) + 1, 0 when there is no match
IndexFrom(content, old, from) ==
    IF \E i \in from..(Len(content) + 1) : MatchAt(content, old, i)
    THEN CHOOSE i \in from..(Len(content) + 1) :
            /\ MatchAt(content, old, i)
            /\ \A j \in from..(i - 1) : ~MatchAt(content, old, j)
    ELSE 0

\* The number of separators content.split(old) finds from position from on,
\* for a non-empty old: each match is looked for after the end of the last.
RECURSIVE Separators(_, _, _)
Separators(content, old, from) ==
    LET i == IndexFrom(content, old, from)
    IN  IF i = 0 THEN 0 ELSE 1 + Separators(content, old, i + Len(old))

\* content.split(old).length: an empty separator splits into the code units,
\* and "".split("") is the empty array.
SplitLength(content, old) ==
    IF old = <<>> THEN Len(content) ELSE Separators(content, old, 1) + 1

\* GetSubstitution of String.prototype.replace for a string pattern: $$ is a
\* dollar sign, $& the match, $` the text before it and $' the text after it.
RECURSIVE GetSubstitution(_, _, _, _)
GetSubstitution(repl, matched, before, after) ==
    IF repl = <<>> THEN <<>>
    ELSE IF Head(repl) = "$" /\ Len(repl) >= 2 /\ repl[2] \in {"$", "&", "`", "'"}
    THEN (CASE repl[2] = "$" -> <<"$">>
            [] repl[2] = "&" -> matched
            [] repl[2] = "`" -> before
            [] repl[2] = "'" -> after)
         \o GetSubstitution(SubSeq(repl, 3, Len(repl)), matched, before, after)
    ELSE <<Head(repl)>> \o GetSubstitution(Tail(repl), matched, before, after)

\* content.replace(old, new) with strings: the first match only
Replace(content, old, new) ==
    LET i == IndexFrom(content, old, 1)
        before == SubSeq(content, 1, i - 1)
        after == SubSeq(content, i + Len(old), Len(content))
    IN  IF i = 0 THEN content
        ELSE before \o GetSubstitution(new, old, before, after) \o after

NoArg == <<"undefined">>

EdStart(file) ==
    /\ edFile = file
    /\ edLast = [op |-> "init", old |-> NoArg, new |-> NoArg, result |-> "none", count |-> 0]

NoFile == [exists |-> FALSE, content |-> <<>>]

\* The services run with no editor call under way.
EdIdle == EdStart(NoFile)

EdInit ==
    \E file \in {NoFile} \cup {[exists |-> TRUE, content |-> c] : c \in Strings(MaxContent)} :
        EdStart(file)

EdFrame == UNCHANGED <<svcVars, gtVars, puVars, fsVars, bhVars, trVars>>

\* handleTextEditorTool({command: "str_replace", path, old_str, new_str})
StrReplace(old, new) ==
    LET occurrences == SplitLength(edFile.content, old) - 1
        newContent == Replace(edFile.content, old, new)
        result == IF old = NoArg \/ new = NoArg THEN "argsRequired"
                  ELSE IF ~edFile.exists THEN "fileNotFound"
                  ELSE IF occurrences = 0 THEN "notFound"
                  ELSE IF occurrences > 1 THEN "appearsTimes"
                  ELSE "replaced"
    IN  /\ result = "replaced" => Len(newContent) <= MaxContent
        /\ edFile' = IF result = "replaced"
                     THEN [edFile EXCEPT !.content = newContent] ELSE edFile
        /\ edLast' = [op |-> "str_replace", old |-> old, new |-> new, result |-> result,
                      count |-> IF result = "appearsTimes" THEN occurrences ELSE 0]
        /\ EdFrame

EdArgs == Strings(MaxArg) \cup {NoArg}

EdNext == \E old \in EdArgs, new \in EdArgs : StrReplace(old, new)

(***************************************************************************)
(*               generateTitle applied to arbitrary prompts                *)
(***************************************************************************)
PadChars == {" ", "\t", "a"}

RECURSIVE Pads(_)
Pads(n) ==
    IF n = 0 THEN {<<>>}
    ELSE LET shorter == Pads(n - 1)
         IN  shorter \cup {Append(t, ch) : t \in shorter, ch \in PadChars}

Run(k) == [i \in 1..k |-> "b"]

\* Run lengths that put the cleaned prompt below, at and above maxLength.
RunLengths == {0} \cup ((maxLength - 3)..(maxLength + 1))

\* The prompts: a long word with up to MaxPad characters on either side.
Prompts == {pre \o Run(k) \o suf : pre \in Pads(MaxPad), suf \in Pads(MaxPad), k \in RunLengths}

NoTitle == <<"undefined">>

GtStart(prompt) == gtPrompt = prompt /\ gtTitle = NoTitle

GtIdle == GtStart(<<>>)

GtInit == \E prompt \in Prompts : GtStart(prompt)

\* title: this.generateTitle(prompt), in upsert when the session is new
GenerateTitle ==
    /\ gtTitle = NoTitle
    /\ gtTitle' = generateTitle(gtPrompt)
    /\ UNCHANGED <<gtPrompt, svcVars, edVars, puVars, fsVars, bhVars, trVars>>

GtNext == GenerateTitle

(***************************************************************************)
(*                         parseUsageOutput                                *)
(***************************************************************************)
\* A line is the sequence of its fragments, in order.  These are the lines
\* of the /usage panel, after the ANSI codes are removed and the line is
\* trimmed: section headers, progress bars, reset lines, other text.
UsageLines ==
    { <<"Current session">>,
      <<"Current week", "all models">>,
      <<"Current week", "Sonnet">>,
      <<"Current week">>,
      <<"42% used">>,
      <<"7% used">>,
      <<"Current session", "7% used">>,
      <<"Resets 7:59am (America/New_York)">>,
      <<"Resets Jan 9 at 9:59pm">>,
      <<"Esc to cancel">>,
      <<>> }

\* line.includes(fragment)
Includes(line, fragment) == \E i \in 1..Len(line) : line[i] = fragment

HasPercentUsed(line) == Includes(line, "42% used") \/ Includes(line, "7% used")

\* line.match(/(\d+)%\s*used/i): the first match, parseInt of its digits
parsePercentage(line) ==
    IF \E i \in 1..Len(line) : line[i] \in {"42% used", "7% used"}
    THEN LET i == CHOOSE j \in 1..Len(line) :
                     /\ line[j] \in {"42% used", "7% used"}
                     /\ \A k \in 1..(j - 1) : line[k] \notin {"42% used", "7% used"}
         IN  IF line[i] = "42% used" THEN 42 ELSE 7
    ELSE 0

Undefined == "undefined"

\* parseResetTime(line): the two regular expressions, applied in order
parseResetTime(line) ==
    IF Includes(line, "Resets 7:59am (America/New_York)")
    THEN [time |-> "7:59am", timezone |-> "America/New_York"]
    ELSE IF Includes(line, "Resets Jan 9 at 9:59pm")
    THEN [time |-> "Jan 9 at 9:59pm", timezone |-> Undefined]
    ELSE [time |-> "", timezone |-> Undefined]

NullLimit == [name |-> "null", percentUsed |-> 0, resetTime |-> "", resetTimezone |-> Undefined]

EmptyUsage == [currentSession |-> NullLimit,
               currentWeekAllModels |-> NullLimit,
               currentWeekSonnetOnly |-> NullLimit]

\* The section a line switches to, or the section so far.
DetectSection(line, currentSection) ==
    IF Includes(line, "Current session") THEN "session"
    ELSE IF Includes(line, "Current week") /\ Includes(line, "all models") THEN "weekAll"
    ELSE IF Includes(line, "Current week") /\ Includes(line, "Sonnet") THEN "weekSonnet"
    ELSE currentSection

NextLine_Same(lines, i) == lines[i]

\* lines[i + 1]?.trim() || ""
NextLine(lines, i) == IF i + 1 <= Len(lines) THEN lines[i + 1] ELSE <<>>

LimitData(lines, i, section) ==
    LET resetInfo == parseResetTime(NextLine(lines, i))
    IN  [name |-> IF section = "session" THEN "Current Session"
                  ELSE IF section = "weekAll" THEN "Weekly (All Models)"
                  ELSE "Weekly (Sonnet Only)",
         percentUsed |-> parsePercentage(lines[i]),
         resetTime |-> resetInfo.time,
         resetTimezone |-> resetInfo.timezone]

\* The body of the loop over the lines, from line i on.
RECURSIVE ParseFrom(_, _, _, _)
ParseFrom(lines, i, currentSection, result) ==
    IF i > Len(lines) THEN result
    ELSE LET section == DetectSection(lines[i], currentSection)
             limitData == LimitData(lines, i, section)
             next == IF ~HasPercentUsed(lines[i]) THEN result
                     ELSE IF section = "session"
                     THEN [result EXCEPT !.currentSession = limitData]
                     ELSE IF section = "weekAll"
                     THEN [result EXCEPT !.currentWeekAllModels = limitData]
                     ELSE IF section = "weekSonnet"
                     THEN [result EXCEPT !.currentWeekSonnetOnly = limitData]
                     ELSE result
         IN  ParseFrom(lines, i + 1, section, next)

\* parseUsageOutput(output), without the timestamp of the parse
parseUsageOutput(lines) == ParseFrom(lines, 1, "", EmptyUsage)

RECURSIVE Outputs(_)
Outputs(n) ==
    IF n = 0 THEN {<<>>}
    ELSE LET shorter == Outputs(n - 1)
         IN  shorter \cup {Append(o, l) : o \in shorter, l \in UsageLines}

NotParsed == [parsed |-> FALSE, data |-> EmptyUsage]

PuStart(output) == puOutput = output /\ puResult = NotParsed

PuIdle == PuStart(<<>>)

PuInit == \E output \in Outputs(MaxLines) : PuStart(output)

\* return parseUsageOutput(output), in getClaudeUsage
ParseUsageOutput ==
    /\ ~puResult.parsed
    /\ puResult' = [parsed |-> TRUE, data |-> parseUsageOutput(puOutput)]
    /\ UNCHANGED <<puOutput, svcVars, edVars, gtVars, fsVars, bhVars, trVars>>

PuNext == ParseUsageOutput

(***************************************************************************)
(*                        buildDirectoryTree                               *)
(***************************************************************************)
SKIP_DIRECTORIES ==
    {"node_modules", "dist", "build", "__pycache__", ".git", "Library",
     "Photos Library.photoslibrary", "Photo Booth Library", ".Trash", "Applications"}

\* The entry names on disk.
EntryNames == {"node_modules", ".git", ".hidden", ".env.example", "src"}

\* entry.name.startsWith(".")
StartsWithDot(name) == name \in {".git", ".hidden", ".env.example", ".Trash"}

EntryKinds == {"absent", "file", "dir"}

\* A disk: every directory down to level levels holds the same entries,
\* kinds[name] says whether name is absent, a file or a directory there.
Disks == {[kinds |-> k, levels |-> l] : k \in [EntryNames -> EntryKinds], l \in 1..MaxLevels}

\* fs.readdir(dir, {withFileTypes: true}) for the directory at path dir
ReadDir(disk, dir) ==
    IF Len(dir) >= disk.levels THEN {}
    ELSE {name \in EntryNames : disk.kinds[name] # "absent"}

IsDirectory(disk, name) == disk.kinds[name] = "dir"

\* The two tests that make the loop skip an entry.
Skipped(name) ==
    \/ StartsWithDot(name) /\ name # ".env.example"
    \/ name \in SKIP_DIRECTORIES

\* buildDirectoryTree(dir, maxDepth, currentDepth): the nodes it pushes and
\* those of the children it attaches; the order of siblings and the ids
\* are left out.
RECURSIVE BuildTree(_, _, _, _)
BuildTree(disk, dir, maxDepth, currentDepth) ==
    UNION { LET entryPath == Append(dir, name)
                node == [path |-> entryPath,
                         type |-> IF IsDirectory(disk, name) THEN "folder" ELSE "file"]
            IN  IF Skipped(name) THEN {}
                ELSE IF IsDirectory(disk, name) /\ currentDepth < maxDepth
                THEN {node} \cup BuildTree(disk, entryPath, maxDepth, currentDepth + 1)
                ELSE {node}
          : name \in ReadDir(disk, dir) }

\* parseInt(req.query.depth) || config.maxTreeDepth: any integer but 0
DepthArgs == (-1..MaxDepthArg) \ {0}

NoWalk == [done |-> FALSE, nodes |-> {}]

FsStart(disk, maxDepth) == fsDisk = disk /\ fsMaxDepth = maxDepth /\ fsResult = NoWalk

FsIdle == FsStart([kinds |-> [name \in EntryNames |-> "absent"], levels |-> 1], 1)

FsInit == \E disk \in Disks, maxDepth \in DepthArgs : FsStart(disk, maxDepth)

\* buildDirectoryTree(inputPath, depth), in GET /api/files/tree
BuildDirectoryTree ==
    /\ ~fsResult.done
    /\ fsResult' = [done |-> TRUE, nodes |-> BuildTree(fsDisk, <<>>, fsMaxDepth, 0)]
    /\ UNCHANGED <<fsDisk, fsMaxDepth, svcVars, edVars, gtVars, puVars, bhVars, trVars>>

FsNext == BuildDirectoryTree

(***************************************************************************)
(*                    handleBashTool (tools/text-editor.ts)                *)
(***************************************************************************)
\* 100 * 1024
MAX_OUTPUT_SIZE == 102400

\* "\n[Output truncated - exceeded maximum size]".length
MarkerLength == 43

\* The lengths of the chunks a data event can carry.
ChunkLengths == {1024, 40 * 1024, 60 * 1024}

Chunk(length) == [kind |-> "chunk", length |-> length]

Marker == [kind |-> "marker", length |-> MarkerLength]

\* stdout.length
RECURSIVE LengthOf(_)
LengthOf(segments) ==
    IF segments = <<>> THEN 0
    ELSE Head(segments).length + LengthOf(Tail(segments))

NoData == [length |-> 0, before |-> 0, settled |-> FALSE]

BhIdle ==
    /\ bhProc = "none"
    /\ bhStdout = <<>>
    /\ bhKilled = FALSE
    /\ bhTimer = FALSE
    /\ bhResult = "none"
    /\ bhLast = NoData

BhFrame == UNCHANGED <<svcVars, edVars, gtVars, puVars, fsVars, trVars>>

\* handleBashTool(input, workingDirectory) with a command: spawn, and the
\* timeout handler is armed.
HandleBashTool ==
    /\ bhProc = "none"
    /\ bhProc' = "running"
    /\ bhTimer' = TRUE
    /\ UNCHANGED <<bhStdout, bhKilled, bhResult, bhLast>>
    /\ BhFrame

\* proc.stdout.on("data", ...): a chunk arrives; a killed process may still
\* have output in the pipe.
StdoutData(length) ==
    /\ bhProc \in {"running", "killed"}
    /\ Len(bhStdout) < MaxChunks
    /\ bhLast' = [length |-> length, before |-> LengthOf(bhStdout),
                  settled |-> bhResult # "none"]
    /\ IF LengthOf(bhStdout) + length <= MAX_OUTPUT_SIZE
       THEN /\ bhStdout' = Append(bhStdout, Chunk(length))
            /\ UNCHANGED <<bhKilled, bhProc>>
       ELSE IF ~bhKilled
       THEN /\ bhKilled' = TRUE
            /\ bhProc' = "killed"
            /\ bhStdout' = Append(bhStdout, Marker)
       ELSE UNCHANGED <<bhStdout, bhKilled, bhProc>>
    /\ UNCHANGED <<bhTimer, bhResult>>
    /\ BhFrame

\* proc.on("close", ...): resolve(output || "(no output)")
BhClose ==
    /\ bhProc \in {"running", "killed"}
    /\ bhProc' = "closed"
    /\ bhResult' = IF bhResult = "none" THEN "output" ELSE bhResult
    /\ UNCHANGED <<bhStdout, bhKilled, bhTimer, bhLast>>
    /\ BhFrame

\* The handler of setTimeout(..., COMMAND_TIMEOUT)
BhTimeout ==
    /\ bhTimer
    /\ bhTimer' = FALSE
    /\ IF ~bhKilled
       THEN /\ bhKilled' = TRUE
            /\ bhProc' = IF bhProc = "running" THEN "killed" ELSE bhProc
            /\ bhResult' = IF bhResult = "none" THEN "timed out" ELSE bhResult
       ELSE UNCHANGED <<bhKilled, bhProc, bhResult>>
    /\ UNCHANGED <<bhStdout, bhLast>>
    /\ BhFrame

BhNext ==
    \/ HandleBashTool
    \/ \E length \in ChunkLengths : StdoutData(length)
    \/ BhClose
    \/ BhTimeout

(***************************************************************************)
(* Claude Code transcripts: parseClaudeCodeSession and getSessionMessages  *)
(***************************************************************************)

MaxTranscript == 3

Stamps == {"t1", "t2"}

\* new Date().toISOString(), read when a transcript holds no timestamp
NowIso == "now"

SlashCommandText == "<command-name>/clear</command-name>"

\* contentString.includes("<command-name>")
HasCommandName(text) == text = SlashCommandText

\* text.slice(0, 60) + (text.length > 60 ? "..." : ""): every text of the
\* lines below is shorter than 60 characters.
Sliced(text) == text

Block(type, text, id) == [type |-> type, text |-> text, id |-> id]

\* A JSON null standing where a content block is expected.
NullBlock == Block("null", "", "")

NoTokens == [present |-> FALSE, input_tokens |-> 0, output_tokens |-> 0,
            cache_read_input_tokens |-> 0]

\* One line of a transcript, as what JSON.parse makes of it: json is
\* "invalid" when JSON.parse throws, "null" for the JSON value null, and
\* "object" for an object with the fields below ("" = field absent).
TrLine(json, type, timestamp, cwd, summary, form, text, blocks, usage) ==
    [json |-> json, type |-> type, timestamp |-> timestamp, cwd |-> cwd,
     summary |-> summary, form |-> form, text |-> text, blocks |-> blocks,
     usage |-> usage]

InvalidLine == TrLine("invalid", "", "", "", "", "none", "", <<>>, NoTokens)

NullLine == TrLine("null", "", "", "", "", "none", "", <<>>, NoTokens)

SnapshotLine ==
    TrLine("object", "file-history-snapshot", "", "", "", "none", "", <<>>, NoTokens)

SummaryLine == TrLine("object", "summary", "", "", "Fix the build", "none", "", <<>>, NoTokens)

UserText(ts, text) ==
    TrLine("object", "user", ts, "/work", "", "string", text, <<>>, NoTokens)

UserBlocks(ts, blocks) ==
    TrLine("object", "user", ts, "/work", "", "array", "", blocks, NoTokens)

AssistantBlocks(ts, blocks) ==
    TrLine("object", "assistant", ts, "/work", "", "array", "", blocks,
           [present |-> TRUE, input_tokens |-> 2, output_tokens |-> 1,
            cache_read_input_tokens |-> 1])

TrLines ==
    {InvalidLine, NullLine, SnapshotLine, SummaryLine}
    \cup {UserText(ts, "hi") : ts \in Stamps}
    \cup {UserText(ts, SlashCommandText) : ts \in Stamps}
    \cup {UserBlocks(ts, <<Block("text", "hello", "")>>) : ts \in Stamps}
    \cup {UserBlocks(ts, <<Block("tool_result", "", "t1")>>) : ts \in Stamps}
    \cup {UserBlocks(ts, <<NullBlock>>) : ts \in Stamps}
    \cup {UserBlocks(ts, <<Block("tool_result", "", "t1"), NullBlock>>) : ts \in Stamps}
    \cup {AssistantBlocks(ts, <<Block("text", "ok", ""), Block("tool_use", "", "t1")>>) :
            ts \in Stamps}

Transcripts == UNION {[1..n -> TrLines] : n \in 0..MaxTranscript}

\* content.trim().split("\n"): an empty file is one empty line
SplitLines(transcript) ==
    IF transcript = <<>> THEN <<InvalidLine>> ELSE transcript

IsText(block) == block.type = "text" /\ block.text # ""

\* The index of the first null block, Len + 1 when there is none: reading
\* block.type of it throws a TypeError.
FirstNull(blocks) ==
    IF \E i \in DOMAIN blocks : blocks[i].type = "null"
    THEN CHOOSE i \in DOMAIN blocks :
            /\ blocks[i].type = "null"
            /\ \A j \in 1..(i - 1) : blocks[j].type # "null"
    ELSE Len(blocks) + 1

HasNull(blocks) == FirstNull(blocks) <= Len(blocks)

\* The blocks a for-of loop over the array handles before it throws.
Handled(blocks) == SubSeq(blocks, 1, FirstNull(blocks) - 1)

\* msgContent.find(b => b.type === "text" && b.text): 0 when none is found
FindText(blocks) ==
    IF \E i \in DOMAIN blocks : IsText(blocks[i])
    THEN CHOOSE i \in DOMAIN blocks :
            IsText(blocks[i]) /\ \A j \in 1..(i - 1) : ~IsText(blocks[j])
    ELSE 0

\* find throws when it meets a null block before a text block
FindThrows(blocks) ==
    HasNull(blocks) /\ (FindText(blocks) = 0 \/ FirstNull(blocks) < FindText(blocks))

MetaStart ==
    [title |-> "", cwd |-> "", messageCount |-> 0, firstTimestamp |-> "",
     lastTimestamp |-> "", inputTokens |-> 0, outputTokens |-> 0,
     cacheReadTokens |-> 0]

\* The locals of parseClaudeCodeSession after the statements of the loop body
\* that precede the title extraction.
Counted(s, msg) ==
    [s EXCEPT
        !.cwd = IF msg.cwd # "" /\ @ = "" THEN msg.cwd ELSE @,
        !.firstTimestamp = IF msg.timestamp # "" /\ @ = "" THEN msg.timestamp ELSE @,
        !.lastTimestamp = IF msg.timestamp # "" THEN msg.timestamp ELSE @,
        !.messageCount = IF msg.type = "user" THEN @ + 1 ELSE @]

TitleThrows(s, msg) ==
    /\ s.title = ""
    /\ ~(msg.type = "summary" /\ msg.summary # "")
    /\ msg.type = "user"
    /\ msg.form = "array"
    /\ FindThrows(msg.blocks)

Titled(s, msg) ==
    IF s.title # "" THEN s
    ELSE IF msg.type = "summary" /\ msg.summary # ""
         THEN [s EXCEPT !.title = msg.summary]
    ELSE IF msg.type = "user" /\ msg.form = "string" /\ msg.text # ""
            /\ ~HasCommandName(msg.text)
         THEN [s EXCEPT !.title = Sliced(msg.text)]
    ELSE IF msg.type = "user" /\ msg.form = "array" /\ FindText(msg.blocks) # 0
         THEN [s EXCEPT !.title = Sliced(msg.blocks[FindText(msg.blocks)].text)]
    ELSE s

WithUsage(s, msg) ==
    IF msg.type = "assistant" /\ msg.usage.present
    THEN [s EXCEPT
            !.inputTokens = @ + msg.usage.input_tokens,
            !.outputTokens = @ + msg.usage.output_tokens,
            !.cacheReadTokens = @ + msg.usage.cache_read_input_tokens]
    ELSE s

\* One pass of the loop body of parseClaudeCodeSession: a throw leaves the
\* body through the empty catch, with the locals as assigned so far.
MetaStep(s, msg) ==
    IF msg.json # "object" THEN s
    ELSE IF msg.type = "file-history-snapshot" THEN s
    ELSE IF TitleThrows(Counted(s, msg), msg) THEN Counted(s, msg)
    ELSE WithUsage(Titled(Counted(s, msg), msg), msg)

RECURSIVE MetaFold(_, _)
MetaFold(s, lines) ==
    IF lines = <<>> THEN s
    ELSE MetaFold(MetaStep(s, Head(lines)), Tail(lines))

\* The SessionMetadata parseClaudeCodeSession returns for a transcript.
parseClaudeCodeSession(transcript) ==
    LET s == MetaFold(MetaStart, SplitLines(transcript))
    IN [title |-> IF s.title # "" THEN s.title ELSE "Untitled conversation",
        cwd |-> s.cwd,
        messageCount |-> s.messageCount,
        createdAt |-> IF s.firstTimestamp # "" THEN s.firstTimestamp ELSE NowIso,
        lastActivity |-> IF s.lastTimestamp # "" THEN s.lastTimestamp ELSE NowIso,
        totalTokens |-> [input |-> s.inputTokens + s.cacheReadTokens,
                         output |-> s.outputTokens]]

ToolIds == {"t1"}

NotPending == [held |-> "none", message |-> 0, call |-> 0]

\* The ToolCall objects of the tool_use blocks, in order: result is "" while
\* undefined.
ToolCallsOf(blocks) ==
    LET uses == SelectSeq(blocks, LAMBDA b : b.type = "tool_use" /\ b.id # "")
    IN [c \in DOMAIN uses |-> [id |-> uses[c].id, result |-> ""]]

RECURSIVE JoinText(_, _)
JoinText(blocks, separator) ==
    IF blocks = <<>> THEN ""
    ELSE IF ~IsText(Head(blocks)) THEN JoinText(Tail(blocks), separator)
    ELSE IF \E i \in DOMAIN Tail(blocks) : IsText(Tail(blocks)[i])
         THEN Head(blocks).text \o separator \o JoinText(Tail(blocks), separator)
    ELSE Head(blocks).text

ChatMessage(type, content, timestamp, toolCalls) ==
    [type |-> type, content |-> content,
     timestamp |-> IF timestamp # "" THEN timestamp ELSE NowIso,
     toolCalls |-> toolCalls]

ChatStart == [messages |-> <<>>, pending |-> [id \in ToolIds |-> NotPending]]

\* pendingToolCalls.set(block.id, ...) for every tool_use block handled: the
\* ToolCall object stands in the message pushed next, or in no message when
\* the loop threw before the push.
PendingAfter(s, blocks, pushed) ==
    LET calls == ToolCallsOf(blocks)
        LastCall(id) == CHOOSE c \in DOMAIN calls :
            calls[c].id = id /\ \A d \in DOMAIN calls : calls[d].id = id => d <= c
    IN [id \in ToolIds |->
            IF \E c \in DOMAIN calls : calls[c].id = id
            THEN IF pushed
                 THEN [held |-> "message", message |-> Len(s.messages) + 1,
                       call |-> LastCall(id)]
                 ELSE [held |-> "dropped", message |-> 0, call |-> 0]
            ELSE s.pending[id]]

\* assistant line with an array content
AssistantStep(s, msg) ==
    LET blocks == Handled(msg.blocks)
        textContent == JoinText(blocks, "")
        toolCalls == ToolCallsOf(blocks)
        pushed == ~HasNull(msg.blocks) /\ (textContent # "" \/ toolCalls # <<>>)
    IN [messages |-> IF pushed
                     THEN Append(s.messages,
                            ChatMessage("assistant", textContent, msg.timestamp, toolCalls))
                     ELSE s.messages,
        pending |-> PendingAfter(s, blocks, pushed /\ ~HasNull(msg.blocks))]

\* formatToolResult(msg.toolUseResult) of a result with exitCode 0
FormattedResult == "Success"

\* pending.toolCall.result = ... for the tool_result blocks handled
WithResults(s, blocks) ==
    LET ids == {blocks[i].id : i \in {j \in DOMAIN blocks :
                    blocks[j].type = "tool_result" /\ blocks[j].id # ""}}
        Hit(m, c) == \E id \in ids :
            s.pending[id] = [held |-> "message", message |-> m, call |-> c]
        Calls(m) == s.messages[m].toolCalls
    IN [s EXCEPT !.messages =
            [m \in DOMAIN s.messages |->
                [s.messages[m] EXCEPT !.toolCalls =
                    [c \in DOMAIN Calls(m) |->
                        IF Hit(m, c)
                        THEN [Calls(m)[c] EXCEPT !.result = FormattedResult]
                        ELSE Calls(m)[c]]]]]

\* user line with an array content
UserStep(s, msg) ==
    LET blocks == Handled(msg.blocks)
        resolved == WithResults(s, blocks)
        isToolResult == \E i \in DOMAIN blocks :
            blocks[i].type = "tool_result" /\ blocks[i].id # ""
        textContent == JoinText(msg.blocks, "\n")
    IN IF HasNull(msg.blocks) \/ isToolResult THEN resolved
       ELSE IF textContent # "" /\ ~HasCommandName(textContent)
            THEN [resolved EXCEPT !.messages =
                    Append(@, ChatMessage("user", textContent, msg.timestamp, <<>>))]
       ELSE resolved

\* user or assistant line with a string content
StringStep(s, msg) ==
    IF msg.text # "" /\ ~HasCommandName(msg.text)
    THEN [s EXCEPT !.messages =
            Append(@, ChatMessage(msg.type, msg.text, msg.timestamp, <<>>))]
    ELSE s

\* One pass of the loop body of getSessionMessages.
ChatStep(s, msg) ==
    IF msg.json # "object" THEN s
    ELSE IF msg.type # "user" /\ msg.type # "assistant" THEN s
    ELSE IF msg.form = "string" THEN StringStep(s, msg)
    ELSE IF msg.form = "array" /\ msg.type = "assistant" THEN AssistantStep(s, msg)
    ELSE IF msg.form = "array" THEN UserStep(s, msg)
    ELSE s

RECURSIVE ChatFold(_, _)
ChatFold(s, lines) ==
    IF lines = <<>> THEN s
    ELSE ChatFold(ChatStep(s, Head(lines)), Tail(lines))

\* The ChatMessage[] getSessionMessages returns; the id of a message is the
\* session id and its index in the array.
getSessionMessages(transcript) ==
    ChatFold(ChatStart, SplitLines(transcript)).messages

NoMeta == [done |-> FALSE, value |-> parseClaudeCodeSession(<<>>)]

NoChat == [done |-> FALSE, value |-> <<>>]

TrIdle ==
    /\ trLines = <<>>
    /\ trMeta = NoMeta
    /\ trChat = NoChat

TrInit ==
    /\ trLines \in Transcripts
    /\ trMeta = NoMeta
    /\ trChat = NoChat

TrFrame == UNCHANGED <<svcVars, edVars, gtVars, puVars, fsVars, bhVars, trLines>>

\* listClaudeCodeSessions() reading the transcript
ListClaudeCodeSessions ==
    /\ ~trMeta.done
    /\ trMeta' = [done |-> TRUE, value |-> parseClaudeCodeSession(trLines)]
    /\ UNCHANGED trChat
    /\ TrFrame

\* getSessionMessages(sessionId) reading the transcript
GetSessionMessages ==
    /\ ~trChat.done
    /\ trChat' = [done |-> TRUE, value |-> getSessionMessages(trLines)]
    /\ UNCHANGED trMeta
    /\ TrFrame

TrNext == ListClaudeCodeSessions \/ GetSessionMessages

(***************************************************************************)
(*        ClaudeAgentService and the /api/agent/stream route               *)
(***************************************************************************)
AgIds == {"c1", "c2"}

\* sessionId === undefined
NoSession == "none"

RECURSIVE Ids(_, _)
Ids(base, n) == IF n = 0 THEN <<>> ELSE Append(Ids(base, n - 1), base + n)

\* The ids of the tool_use blocks of the response of one round.
BlockIds(round, n) == Ids((round - 1) * MaxBlocks, n)

NoResponse == [stop_reason |-> "none", tools |-> <<>>]

\* What the Messages API can answer in a round: Message.stop_reason and the
\* tool_use blocks of Message.content.  A response cut off by max_tokens can
\* end inside a tool_use block, which is then part of its content.
Responses(round) ==
    {[stop_reason |-> "end_turn", tools |-> <<>>]}
    \cup (IF round <= MaxRounds
          THEN {[stop_reason |-> "tool_use", tools |-> BlockIds(round, n)] :
                    n \in 1..MaxBlocks}
               \cup {[stop_reason |-> "max_tokens", tools |-> BlockIds(round, 1)]}
          ELSE {})

\* One SSE frame: the AgentStreamEvent the route serialises into it.
Frame(type, sessionId, id, data) ==
    [type |-> type, sessionId |-> sessionId, id |-> id, data |-> data]

\* res.write(`data: ${JSON.stringify({ type: "connected" })}\n\n`)
ConnectedFrame == Frame("connected", NoSession, 0, "")

\* yield { type: "token", data: { sessionId: session.id } }
SessionFrame(id) == Frame("token", id, 0, "")

\* yield { type: "token", data: { text: delta.text } }
TokenFrame == Frame("token", NoSession, 0, "text")

ToolUseFrame(id) == Frame("tool_use", NoSession, id, "")

ToolResultFrame(id, result) == Frame("tool_result", NoSession, id, result)

\* yield { type: "complete", data: { sessionId: session.id, stopReason } }
CompleteFrame(id, stopReason) == Frame("complete", id, 0, stopReason)

ErrorFrame == Frame("error", NoSession, 0, "message")

ResWrite(res, frame) == [res EXCEPT !.frames = Append(@, frame)]

\* The catch block of the /stream handler.
RouteCatch_Swallow(res) == res

RouteCatch(res) == ResWrite(res, ErrorFrame)

\* executeTool(name, input, workingDirectory): a tool that throws is caught
\* and reported in the result string, so the call itself always returns.
ToolOutcomes == {"ok", "Error executing"}

\* getOrCreateSession(sessionId, workingDirectory): the ids the session it
\* returns can have; uuidv4() yields an id that is not in the map.
SessionKnown(ss, sid) == sid # NoSession /\ ss[sid].exists

ResolvedIds(ss, sid) ==
    IF SessionKnown(ss, sid) THEN {sid}
    ELSE IF sid # NoSession THEN {sid}
    ELSE {id \in AgIds : ~ss[id].exists}

\* The map after getOrCreateSession returned the session `id` and the caller
\* pushed the user message.
WithUserMessage(ss, id) ==
    LET old == IF ss[id].exists THEN ss[id].messages ELSE <<>>
    IN  [ss EXCEPT ![id] = [exists |-> TRUE, messages |-> Append(old, "user")]]

WithAssistantMessage(ss, id) ==
    [ss EXCEPT ![id].messages = Append(@, "assistant")]

\* session.messages.push(assistant) by a call: it pushes to the session
\* object it got at its start, which clearSession may have taken out of the
\* map since.
PushedBy(ss, call) ==
    IF call.detached THEN ss ELSE WithAssistantMessage(ss, call.session)

\* session.messages.map((m) => ({ role: m.role, content: m.content }))
RECURSIVE ApiMessages(_)
ApiMessages(msgs) ==
    IF msgs = <<>> THEN <<>>
    ELSE <<[role |-> Head(msgs), ids |-> <<>>]>> \o ApiMessages(Tail(msgs))

\* messages.push({role: "assistant", content}); messages.push({role: "user",
\* content: toolResults})
WithToolTurn(messages, response, toolResults) ==
    messages \o <<[role |-> "assistant", ids |-> response.tools],
                  [role |-> "user", ids |-> toolResults]>>

\* The two agent routers of the source tree: routes/agent.ts, and the one
\* with the session list and usage routes.
Routers == {"routes/agent.ts", "part_001"}

\* One HTTP response: the route, whether the request had a task, the session
\* id it named, the status and the message field; n counts the requests.
Reply(n, route, task, id, status, message) ==
    [n |-> n, route |-> route, task |-> task, id |-> id, status |-> status,
     message |-> message]

NoReply == Reply(0, "none", FALSE, NoSession, 0, "")

\* The early returns of POST /task and GET /stream: the status they answer,
\* 0 when the handler goes on to call the service.
Refusal(router, key, task) ==
    IF ~task THEN 400
    ELSE IF router = "routes/agent.ts" /\ ~key THEN 503
    ELSE 0

IdleCall ==
    [pc |-> "idle", session |-> NoSession, round |-> 0, deltas |-> 0,
     response |-> NoResponse, idx |-> 0, toolResults |-> <<>>,
     responses |-> <<>>, detached |-> FALSE]

AgStart ==
    /\ agSessions = [id \in AgIds |-> [exists |-> FALSE, messages |-> <<>>]]
    /\ agCalls = 0
    /\ skCall = IdleCall
    /\ skMessages = <<>>
    /\ skRes = [frames |-> <<>>, ended |-> FALSE]
    /\ skTools = <<>>
    /\ tkCall = IdleCall
    /\ tkMessages = <<>>
    /\ tkTools = <<>>
    /\ tkLast = [outcome |-> "none", sessionId |-> NoSession,
                 toolCalls |-> <<>>, stopReason |-> "none"]
    /\ htLast = NoReply

\* The server of routes/agent.ts with ANTHROPIC_API_KEY set.
AgInit == AgStart /\ cfgApiKey = TRUE /\ cfgRouter = "routes/agent.ts"

\* Either router, with or without the key.
HtInit == AgStart /\ cfgApiKey \in BOOLEAN /\ cfgRouter \in Routers

AgFrame == UNCHANGED <<tmVars, stVars, usVars, toolVars, cfgApiKey, cfgRouter>>

TaskVars == <<tkCall, tkMessages, tkTools, tkLast>>

StreamVars == <<skCall, skMessages, skRes, skTools>>

\* GET /stream with a task and an API key: the SSE headers, the connected
\* frame, then the generator runs up to its first yield and that event is
\* written.
StreamOpen(sid) ==
    /\ skCall.pc \in {"idle", "done"}
    /\ agCalls < MaxCalls
    /\ htLast.n < MaxRequests
    /\ Refusal(cfgRouter, cfgApiKey, TRUE) = 0
    /\ htLast' = Reply(htLast.n + 1, "stream", TRUE, sid, 200, "")
    /\ \E id \in ResolvedIds(agSessions, sid) :
        /\ agSessions' = WithUserMessage(agSessions, id)
        /\ skMessages' = ApiMessages(agSessions'[id].messages)
        /\ skCall' = [IdleCall EXCEPT !.pc = "model", !.session = id, !.round = 1]
        /\ skRes' = [frames |-> <<ConnectedFrame, SessionFrame(id)>>,
                     ended |-> FALSE]
    /\ skTools' = <<>>
    /\ agCalls' = agCalls + 1
    /\ UNCHANGED TaskVars
    /\ AgFrame

\* for await (const event of stream): a content_block_delta with text
StreamDelta ==
    /\ skCall.pc = "model"
    /\ skCall.deltas < MaxDeltas
    /\ skCall' = [skCall EXCEPT !.deltas = @ + 1]
    /\ skRes' = ResWrite(skRes, TokenFrame)
    /\ UNCHANGED <<agSessions, agCalls, skMessages, skTools, TaskVars, htLast>>
    /\ AgFrame

\* const finalMessage = await stream.finalMessage(), and the branch on
\* toolUseBlocks.length > 0
StreamFinal(response) ==
    /\ skCall.pc = "model"
    /\ IF Len(response.tools) > 0
       THEN /\ skCall' = [skCall EXCEPT !.pc = "tool_use", !.response = response,
                                        !.idx = 1, !.toolResults = <<>>,
                                        !.responses = Append(@, response)]
            /\ UNCHANGED <<agSessions, skRes>>
       ELSE /\ skCall' = [skCall EXCEPT !.pc = "end", !.response = response,
                                        !.responses = Append(@, response)]
            /\ agSessions' = PushedBy(agSessions, skCall)
            /\ skRes' = ResWrite(skRes, CompleteFrame(skCall.session,
                                                   response.stop_reason))
    /\ UNCHANGED <<agCalls, skMessages, skTools, TaskVars, htLast>>
    /\ AgFrame

\* client.messages.stream or stream.finalMessage() throws: the generator
\* ends with the exception and the handler's catch block runs.
StreamThrow ==
    /\ skCall.pc = "model"
    /\ skCall' = [skCall EXCEPT !.pc = "end"]
    /\ skRes' = RouteCatch(skRes)
    /\ UNCHANGED <<agSessions, agCalls, skMessages, skTools, TaskVars, htLast>>
    /\ AgFrame

\* yield { type: "tool_use", data: { id, name, input } }
StreamToolUse ==
    /\ skCall.pc = "tool_use"
    /\ skCall' = [skCall EXCEPT !.pc = "tool_result"]
    /\ skRes' = ResWrite(skRes, ToolUseFrame(skCall.response.tools[skCall.idx]))
    /\ UNCHANGED <<agSessions, agCalls, skMessages, skTools, TaskVars, htLast>>
    /\ AgFrame

\* await this.executeTool(...), yield { type: "tool_result", ... },
\* toolResults.push(...); after the last block the two messages.push calls.
StreamToolResult(result) ==
    /\ skCall.pc = "tool_result"
    /\ LET id      == skCall.response.tools[skCall.idx]
           results == Append(skCall.toolResults, id)
       IN  /\ skTools' = Append(skTools, id)
           /\ skRes' = ResWrite(skRes, ToolResultFrame(id, result))
           /\ IF skCall.idx < Len(skCall.response.tools)
              THEN /\ skCall' = [skCall EXCEPT !.pc = "tool_use", !.idx = @ + 1,
                                               !.toolResults = results]
                   /\ UNCHANGED skMessages
              ELSE /\ skCall' = [skCall EXCEPT !.pc = "model", !.round = @ + 1,
                                               !.deltas = 0,
                                               !.toolResults = results]
                   /\ skMessages' = WithToolTurn(skMessages, skCall.response,
                                                 results)
    /\ UNCHANGED <<agSessions, agCalls, TaskVars, htLast>>
    /\ AgFrame

\* res.end()
StreamEnd ==
    /\ skCall.pc = "end"
    /\ skCall' = [skCall EXCEPT !.pc = "done"]
    /\ skRes' = [skRes EXCEPT !.ended = TRUE]
    /\ UNCHANGED <<agSessions, agCalls, skMessages, skTools, TaskVars, htLast>>
    /\ AgFrame

\* executeTask(task, sessionId, workingDirectory) up to the first
\* await this.client.messages.create(...)
TaskStart(sid) ==
    /\ tkCall.pc \in {"idle", "done"}
    /\ agCalls < MaxCalls
    /\ htLast.n < MaxRequests
    /\ Refusal(cfgRouter, cfgApiKey, TRUE) = 0
    /\ htLast' = Reply(htLast.n + 1, "task", TRUE, sid, 0, "")
    /\ \E id \in ResolvedIds(agSessions, sid) :
        /\ agSessions' = WithUserMessage(agSessions, id)
        /\ tkMessages' = ApiMessages(agSessions'[id].messages)
        /\ tkCall' = [IdleCall EXCEPT !.pc = "model", !.session = id, !.round = 1]
    /\ tkTools' = <<>>
    /\ agCalls' = agCalls + 1
    /\ UNCHANGED <<tkLast, StreamVars>>
    /\ AgFrame

\* create resolves: while (response.stop_reason === "tool_use") is entered,
\* or the final assistant message is stored and the result returned.
TaskResponse(response) ==
    /\ tkCall.pc = "model"
    /\ IF response.stop_reason = "tool_use"
       THEN /\ tkCall' = [tkCall EXCEPT !.pc = "tool", !.response = response,
                                        !.idx = 1, !.toolResults = <<>>,
                                        !.responses = Append(@, response)]
            /\ UNCHANGED <<agSessions, tkLast, htLast>>
       ELSE /\ tkCall' = [tkCall EXCEPT !.pc = "done", !.response = response,
                                        !.responses = Append(@, response)]
            /\ agSessions' = PushedBy(agSessions, tkCall)
            /\ tkLast' = [outcome |-> "returned", sessionId |-> tkCall.session,
                          toolCalls |-> tkTools,
                          stopReason |-> response.stop_reason]
            /\ htLast' = [htLast EXCEPT !.route = "task", !.task = TRUE,
                                        !.id = tkCall.session, !.status = 200,
                                        !.message = ""]
    /\ UNCHANGED <<agCalls, tkMessages, tkTools, StreamVars>>
    /\ AgFrame

\* create rejects: executeTask propagates the exception.
TaskThrow ==
    /\ tkCall.pc = "model"
    /\ tkCall' = [tkCall EXCEPT !.pc = "done"]
    /\ tkLast' = [outcome |-> "threw", sessionId |-> NoSession,
                  toolCalls |-> <<>>, stopReason |-> "none"]
    /\ htLast' = [htLast EXCEPT !.route = "task", !.task = TRUE,
                                !.id = tkCall.session, !.status = 500,
                                !.message = "error.message"]
    /\ UNCHANGED <<agSessions, agCalls, tkMessages, tkTools, StreamVars>>
    /\ AgFrame

\* One pass of for (const toolUse of toolUseBlocks): executeTool,
\* toolCalls.push, toolResults.push; after the last block the two
\* messages.push calls and the next create.
TaskTool(result) ==
    /\ tkCall.pc = "tool"
    /\ LET id      == tkCall.response.tools[tkCall.idx]
           results == Append(tkCall.toolResults, id)
       IN  /\ tkTools' = Append(tkTools, id)
           /\ IF tkCall.idx < Len(tkCall.response.tools)
              THEN /\ tkCall' = [tkCall EXCEPT !.idx = @ + 1,
                                               !.toolResults = results]
                   /\ UNCHANGED tkMessages
              ELSE /\ tkCall' = [tkCall EXCEPT !.pc = "model", !.round = @ + 1,
                                               !.toolResults = results]
                   /\ tkMessages' = WithToolTurn(tkMessages, tkCall.response,
                                                 results)
    /\ UNCHANGED <<agSessions, agCalls, tkLast, StreamVars, htLast>>
    /\ AgFrame

RequestIds == AgIds \cup {NoSession}

\* POST /task answered by an early return: no task, or no API key.
TaskRefused(task) ==
    /\ htLast.n < MaxRequests
    /\ Refusal(cfgRouter, cfgApiKey, task) # 0
    /\ htLast' = Reply(htLast.n + 1, "task", task, NoSession,
                       Refusal(cfgRouter, cfgApiKey, task), "")
    /\ UNCHANGED <<agSessions, agCalls, StreamVars, TaskVars>>
    /\ AgFrame

\* GET /stream answered by an early return.
StreamRefused(task) ==
    /\ htLast.n < MaxRequests
    /\ Refusal(cfgRouter, cfgApiKey, task) # 0
    /\ htLast' = Reply(htLast.n + 1, "stream", task, NoSession,
                       Refusal(cfgRouter, cfgApiKey, task), "")
    /\ UNCHANGED <<agSessions, agCalls, StreamVars, TaskVars>>
    /\ AgFrame

\* A call that holds the session object of `id` no longer holds a session of
\* the map once clearSession has deleted the entry.
Detach(call, id) ==
    IF call.session = id /\ call.pc \notin {"idle", "done"}
    THEN [call EXCEPT !.detached = TRUE] ELSE call

\* DELETE /session/:sessionId: clearSession, 404 when it returns false
ClearSession(id) ==
    /\ htLast.n < MaxRequests
    /\ htLast' = Reply(htLast.n + 1, "clear", FALSE, id,
                       IF agSessions[id].exists THEN 200 ELSE 404, "")
    /\ agSessions' = [agSessions EXCEPT ![id] = [exists |-> FALSE,
                                                 messages |-> <<>>]]
    /\ skCall' = Detach(skCall, id)
    /\ tkCall' = Detach(tkCall, id)
    /\ UNCHANGED <<agCalls, skMessages, skRes, skTools, tkMessages, tkTools,
                   tkLast>>
    /\ AgFrame

\* GET /session/:sessionId: getSession, 404 when it returns undefined
GetSession(id) ==
    /\ htLast.n < MaxRequests
    /\ htLast' = Reply(htLast.n + 1, "get", FALSE, id,
                       IF agSessions[id].exists THEN 200 ELSE 404, "")
    /\ UNCHANGED <<agSessions, agCalls, StreamVars, TaskVars>>
    /\ AgFrame

StreamNext ==
    \/ \E sid \in RequestIds : StreamOpen(sid)
    \/ StreamDelta
    \/ \E response \in Responses(skCall.round) : StreamFinal(response)
    \/ StreamThrow
    \/ StreamToolUse
    \/ \E result \in ToolOutcomes : StreamToolResult(result)
    \/ StreamEnd

TaskNext ==
    \/ \E sid \in RequestIds : TaskStart(sid)
    \/ \E response \in Responses(tkCall.round) : TaskResponse(response)
    \/ TaskThrow
    \/ \E result \in ToolOutcomes : TaskTool(result)

AgNext == StreamNext \/ TaskNext

\* The agent router: its four routes and the calls they start.
HttpNext ==
    \/ \E task \in BOOLEAN : TaskRefused(task)
    \/ \E task \in BOOLEAN : StreamRefused(task)
    \/ \E id \in AgIds : ClearSession(id)
    \/ \E id \in AgIds : GetSession(id)
    \/ AgNext

(***************************************************************************)
(*                        Specifications                                   *)
(***************************************************************************)
\* In SpecStore every write of sessions.json succeeds; SpecStoreIO also lets
\* up to MaxWriteFailures writes fail.
ServicesInit == TmInit /\ StInitWith(MaxWriteFailures) /\ UsInit /\ AgInit

ToolsIdle == EdIdle /\ GtIdle /\ PuIdle /\ FsIdle /\ BhIdle /\ TrIdle

Init == ServicesInit /\ ToolsIdle

InitIO == TmInit /\ StInitWith(0) /\ UsInit /\ AgInit /\ ToolsIdle

InitEdit == ServicesInit /\ EdInit /\ GtIdle /\ PuIdle /\ FsIdle /\ BhIdle /\ TrIdle

InitTitle == ServicesInit /\ EdIdle /\ GtInit /\ PuIdle /\ FsIdle /\ BhIdle /\ TrIdle

InitParse == ServicesInit /\ EdIdle /\ GtIdle /\ PuInit /\ FsIdle /\ BhIdle /\ TrIdle

InitWalk == ServicesInit /\ EdIdle /\ GtIdle /\ PuIdle /\ FsInit /\ BhIdle /\ TrIdle

SpecTerm == Init /\ [][TmNext]_vars

SpecSocket == Init /\ [][WsNext]_vars

SpecStore == Init /\ [][StNext]_vars

SpecStoreIO == InitIO /\ [][StNext]_vars

SpecUsage == Init /\ [][UsCalls]_vars

SpecCache == Init /\ [][UsNext]_vars

\* Timers armed with setTimeout fire: the timeout of a command and the settle
\* delay are not postponed forever.
SpecUsageFair ==
    Init /\ [][UsCalls]_vars /\ WF_vars(TimeoutFires) /\ WF_vars(SettleFires)

SpecLifecycle == Init /\ [][UsLifecycle]_vars

SpecEdit == InitEdit /\ [][EdNext]_vars

SpecTitle == InitTitle /\ [][GtNext]_vars

SpecParse == InitParse /\ [][PuNext]_vars

SpecWalk == InitWalk /\ [][FsNext]_vars

SpecBash == Init /\ [][BhNext]_vars

InitTranscript == ServicesInit /\ EdIdle /\ GtIdle /\ PuIdle /\ FsIdle /\ BhIdle /\ TrInit

SpecTranscript == InitTranscript /\ [][TrNext]_vars

SpecStream == Init /\ [][StreamNext]_vars

SpecAgent == Init /\ [][AgNext]_vars

InitHttp == TmInit /\ StInitWith(MaxWriteFailures) /\ UsInit /\ HtInit /\ ToolsIdle

SpecHttp == InitHttp /\ [][HttpNext]_vars

Spec == SpecTerm

(***************************************************************************)
(*                            Claims                                       *)
(***************************************************************************)

\* C1: at most one live pty per session id, and every live pty is the one
\* the map entry of its id refers to (so after create on an id with a live
\* process and the old process's exit event, the new process is the single
\* live one and is still registered).
C1_OneLivePtyRegistered ==
    \A id \in SessionIds :
        /\ Cardinality(LivePtys(id)) <= 1
        /\ \A p \in LivePtys(id) : sessions[id] = p

\* C5: upsert(id, prompt, directory) on an id that is not in the store creates
\* a record with messageCount 1 and zero input tokens, output tokens and cost.
C5_UpsertCreatesFresh ==
    (stLast.op = "upsert" /\ ~stLast.known /\ ~stLast.hasUsage) =>
        /\ StHas(stSessions, stLast.id)
        /\ StGet(stLast.id).messageCount = 1
        /\ StGet(stLast.id).input = 0
        /\ StGet(stLast.id).output = 0
        /\ StGet(stLast.id).cost = 0

\* C5 witness: a second id was just created by a three-argument upsert while
\* another session already carries usage.
C5_Witness ==
    /\ stLast.op = "upsert" /\ ~stLast.known /\ ~stLast.hasUsage
    /\ Len(stSessions) = 2
    /\ \E i \in 1..Len(stSessions) : stSessions[i].input > 0

\* The record of `id` after the step.
StGetNext(id) == stSessions'[StIndex(stSessions', id)]

\* C6: in every step that keeps a session, its messageCount, token totals,
\* cost and lastActivity do not decrease and its title, directory and
\* createdAt do not change; an upsert of a known id adds exactly 1 to its
\* messageCount and sets lastActivity to the current time.
C6_UpsertAccumulates ==
    [][ /\ \A i \in 1..Len(stSessions) :
             LET e == stSessions[i]
             IN  StHas(stSessions', e.id) =>
                   /\ StGetNext(e.id).messageCount >= e.messageCount
                   /\ StGetNext(e.id).input >= e.input
                   /\ StGetNext(e.id).output >= e.output
                   /\ StGetNext(e.id).cost >= e.cost
                   /\ StGetNext(e.id).lastActivity >= e.lastActivity
                   /\ StGetNext(e.id).title = e.title
                   /\ StGetNext(e.id).directory = e.directory
                   /\ StGetNext(e.id).createdAt = e.createdAt
        /\ \A id \in StoreIds, a \in CallArgs, u \in Usages \cup {NoUsage}, ok \in BOOLEAN :
             (StHas(stSessions, id) /\ Upsert(id, a.prompt, a.directory, u, ok)) =>
                   /\ StGetNext(id).messageCount = StGet(id).messageCount + 1
                   /\ StGetNext(id).lastActivity = stNow
      ]_vars

\* C6 witness: a session that was upserted again, after time passed, with a
\* different prompt and directory, and that carries usage.
C6_Witness ==
    /\ stLast.op = "upsert" /\ stLast.known
    /\ StHas(stSessions, stLast.id)
    /\ StGet(stLast.id).messageCount >= 2
    /\ StGet(stLast.id).input + StGet(stLast.id).output > 0
    /\ StGet(stLast.id).lastActivity > StGet(stLast.id).createdAt

\* C7: updateUsage on an unknown id changes no session, creates none and does
\* not call save; on a known id it adds input, output and cost onto that
\* session and leaves every other session as it was.
C7_UpdateUsageFrame ==
    [][ \A id \in StoreIds, u \in Usages, ok \in BOOLEAN :
          UpdateUsage(id, u, ok) =>
            IF ~StHas(stSessions, id)
            THEN /\ stSessions' = stSessions
                 /\ stFile' = stFile
                 /\ ~stLast'.saved
            ELSE /\ Len(stSessions') = Len(stSessions)
                 /\ StGetNext(id).input = StGet(id).input + u.input
                 /\ StGetNext(id).output = StGet(id).output + u.output
                 /\ StGetNext(id).cost = StGet(id).cost
                        + (IF u.costUsd = NoCost THEN 0 ELSE u.costUsd)
                 /\ \A i \in 1..Len(stSessions) :
                        stSessions[i].id # id => stSessions'[i] = stSessions[i]
      ]_vars

\* C7 witness: updateUsage was just called for an id the store does not hold
\* while it holds another session, which carries usage from an earlier call.
C7_Witness ==
    /\ stLast.op = "updateUsage" /\ ~stLast.known
    /\ ~StHas(stSessions, stLast.id)
    /\ \E i \in 1..Len(stSessions) : stSessions[i].cost > 0

\* The sum of a field over the sessions in the store, id by id.
TotalById(field(_)) ==
    LET f[S \in SUBSET StoreIds] ==
            IF S = {} THEN 0
            ELSE LET x == CHOOSE x \in S : TRUE
                 IN  (IF StHas(stSessions, x) THEN field(StGet(x)) ELSE 0) + f[S \ {x}]
    IN  f[StoreIds]

InputOf(r) == r.input

OutputOf(r) == r.output

CostUsdOf(r) == r.cost

\* C8: with no stats file present, getTotalUsage returns the sums of input
\* tokens, output tokens and cost over the sessions currently in the store.
C8_TotalIsSum ==
    (stLast.op = "getTotalUsage" /\ stLast.stats = "absent") =>
        /\ stLast.ret.input = TotalById(InputOf)
        /\ stLast.ret.output = TotalById(OutputOf)
        /\ stLast.ret.costUsd = TotalById(CostUsdOf)

\* C8 witness: the total was read without a stats file while two sessions
\* with usage were in the store.
C8_Witness ==
    /\ stLast.op = "getTotalUsage" /\ stLast.stats = "absent"
    /\ Len(stSessions) = 2
    /\ \A i \in 1..2 : stSessions[i].input + stSessions[i].output > 0
    /\ stLast.ret.input > 0 /\ stLast.ret.costUsd > 0

(***************************************************************************)
(*                  Claims on the usage-scrape terminal                    *)
(***************************************************************************)
Unsettled(c) == usCmds[c].status = "pending"

TypedUnsettled == {c \in CmdIds : c \in SeqToSet(usTyped) /\ Unsettled(c)}

\* C2: at most one command is executing at a time: no command is typed into
\* the pty while a command that was started earlier is still unsettled, so
\* at most one typed command is unsettled.
C2_OneCommandAtATime == Cardinality(TypedUnsettled) <= 1

\* Command ids are handed out in the order of the runCommand calls.
StartedInCallOrder ==
    \A i \in 1..Len(usTyped) : \A j \in 1..Len(usTyped) :
        i < j => usTyped[i] < usTyped[j]

ResolvedWithOwnOutput ==
    \A c \in CmdIds : usCmds[c].status = "resolved" => usCmds[c].out \subseteq {c}

\* C3: commands are started in the order in which runCommand was called, and
\* the output a promise resolves with was produced while its own command
\* was the current command.
C3_FifoOwnOutput == StartedInCallOrder /\ ResolvedWithOwnOutput

ExitStep == \E p \in ProcIds : usProcs[p] # "exited" /\ usProcs'[p] = "exited"

\* C4: when the pty process exits, the current command and every queued
\* command are rejected with "Terminal exited", the queue becomes empty,
\* currentCommand becomes null, the terminal is marked not ready, and a
\* restart timer is armed whose callback calls start().
C4_ExitRejectsAll ==
    [][ExitStep =>
        /\ \A c \in CmdIds :
              (c = usCurrent \/ c \in SeqToSet(usQueue)) =>
                  usCmds'[c].status = "exited"
        /\ usQueue' = <<>>
        /\ usCurrent' = NoCmd
        /\ ~usReady'
        /\ usPty' = NoProc
        /\ usStarts' = usStarts + 1]_vars

\* The current and a queued command were rejected by an exit, and the
\* restart has spawned the next process.
C4_Witness ==
    /\ \E c \in CmdIds, d \in CmdIds :
          c # d /\ usCmds[c].status = "exited" /\ usCmds[d].status = "exited"
    /\ \E p \in ProcIds, q \in ProcIds :
          usProcs[p] = "exited" /\ usProcs[q] = "running" /\ usPty = q

(***************************************************************************)
(*                       Claims on the usage cache                         *)
(***************************************************************************)
\* A getCachedClaudeUsage call: it returned at once or queued a command.
CallStep == usLast' # usLast \/ NextCmd' # NextCmd

QueuedNew == usCmds'[NextCmd].status = "pending" /\
             (usCurrent' = NextCmd \/ NextCmd \in SeqToSet(usQueue'))

\* C9: while a snapshot is cached and less than CACHE_TTL ms have passed
\* since its timestamp, getCachedClaudeUsage returns that snapshot and queues
\* no command; once CACHE_TTL ms have passed the call takes the scrape path,
\* which queues a command when the terminal is ready.
C9_CacheTtl ==
    [][CallStep =>
        IF usCached # NoCmd /\ usNow - usCacheTs < CACHE_TTL
        THEN /\ usLast'.path = "hit" /\ usLast'.ret = usCached
             /\ UNCHANGED <<usCmds, usQueue, usCurrent, usTyped, usTimeouts>>
        ELSE /\ usLast'.path # "hit"
             /\ (usReady /\ usPty # NoProc) => QueuedNew /\ usLast'.path = "scrape"]_vars

\* A scrape is queued exactly CACHE_TTL ms after the timestamp of the snapshot
\* that is cached.
C9_Witness ==
    /\ usCached # NoCmd
    /\ \E c \in CmdIds :
          /\ Unsettled(c)
          /\ usCmds[c].now - usCacheTs = CACHE_TTL
          /\ (usCurrent = c \/ c \in SeqToSet(usQueue))

Failed(status) == status \in {"timeout", "exited"}

\* C10: a call whose scrape fails (terminal not ready, command timeout,
\* terminal exit) returns the cached snapshot when one exists, else the
\* error, and leaves cachedUsage and cacheTimestamp as they were; a snapshot
\* is cached exactly when some scrape has succeeded.
C10_FailureServesStale ==
    [][/\ \A c \in CmdIds :
            (Unsettled(c) /\ Failed(usCmds'[c].status)) =>
                /\ usCmds'[c].ret = (IF usCached # NoCmd THEN usCached ELSE Err)
                /\ UNCHANGED <<usCached, usCacheTs>>
       /\ (usLast' # usLast /\ usLast'.path = "notReady") =>
                /\ usLast'.ret = (IF usCached # NoCmd THEN usCached ELSE Err)
                /\ UNCHANGED <<usCached, usCacheTs>>
       /\ (usCached # NoCmd) <=> (\E c \in CmdIds : usCmds[c].status = "resolved")]_vars

\* A scrape issued after the TTL failed and its caller got the stale
\* snapshot, while an earlier caller got the error.
C10_Witness ==
    /\ usCached # NoCmd
    /\ \E c \in CmdIds :
          /\ Failed(usCmds[c].status)
          /\ usCmds[c].ret = usCached
          /\ usCmds[c].now - usCacheTs >= CACHE_TTL
    /\ \E d \in CmdIds : Failed(usCmds[d].status) /\ usCmds[d].ret = Err


(***************************************************************************)
(*               Claims on the startup of the usage terminal               *)
(***************************************************************************)
\* The promise of the start() call that spawned p can no longer settle: its
\* startup timer fired while isReady was true, so it did not reject, and the
\* only resolve() is in the onData handler of p, which has exited.
StartupNeverSettles(p) == usStartup[p] = "lapsed" /\ usProcs[p] = "exited"

\* C11: every start() call that spawns a pty returns a promise that settles:
\* resolved once the ready marker is in the buffer, rejected by the startup
\* timeout otherwise, also when the process exits before it is ready; so no
\* promise is left unsettled with its timer spent and its process gone.
C11_StartupSettles == \A p \in ProcIds : ~StartupNeverSettles(p)


(***************************************************************************)
(*                        Claims on str_replace                            *)
(***************************************************************************)
\* The positions at which old occurs in content.
Positions(content, old) ==
    {i \in 1..(Len(content) + 1) : MatchAt(content, old, i)}

\* A str_replace call with both arguments on a file that exists.
ReplaceCall ==
    /\ edLast'.op = "str_replace"
    /\ edLast'.old # NoArg /\ edLast'.new # NoArg
    /\ edFile.exists

\* C12: when old_str occurs 0 times in the file the result is the "not found"
\* error, when it occurs 2 or more times the result is the error that names
\* the number of occurrences; in both cases the file is left as it was.
C12_RejectsAbsentOrAmbiguous ==
    [][ReplaceCall =>
        LET n == Cardinality(Positions(edFile.content, edLast'.old))
        IN  /\ n = 0 => edLast'.result = "notFound" /\ edFile' = edFile
            /\ n >= 2 => /\ edLast'.result = "appearsTimes"
                         /\ edLast'.count = n
                         /\ edFile' = edFile]_vars

\* C13: when old_str occurs exactly once, the file becomes the original with
\* that occurrence replaced by new_str, and old_str no longer occurs in it.
C13_ReplacesTheOneOccurrence ==
    [][ReplaceCall =>
        LET old == edLast'.old
            at == Positions(edFile.content, old)
        IN  Cardinality(at) = 1 =>
                LET i == CHOOSE j \in at : TRUE
                IN  /\ edLast'.result = "replaced"
                    /\ edFile'.content =
                          SubSeq(edFile.content, 1, i - 1) \o edLast'.new \o
                          SubSeq(edFile.content, i + Len(old), Len(edFile.content))
                    /\ Positions(edFile'.content, old) = {}]_vars


(***************************************************************************)
(*                      Claims on title generation                         *)
(***************************************************************************)
\* The first word of s, which starts with a non-space character.
RECURSIVE FirstWord(_)
FirstWord(s) ==
    IF s = <<>> \/ IsSpace(Head(s)) THEN <<>>
    ELSE <<Head(s)>> \o FirstWord(Tail(s))

\* The words of s: its maximal runs of non-space characters.
RECURSIVE WordsOf(_)
WordsOf(s) ==
    IF s = <<>> THEN <<>>
    ELSE IF IsSpace(Head(s)) THEN WordsOf(Tail(s))
    ELSE LET w == FirstWord(s)
         IN  <<w>> \o WordsOf(SubSeq(s, Len(w) + 1, Len(s)))

RECURSIVE JoinWords(_)
JoinWords(ws) ==
    IF ws = <<>> THEN <<>>
    ELSE IF Len(ws) = 1 THEN ws[1]
    ELSE ws[1] \o <<" ">> \o JoinWords(Tail(ws))

\* The prompt with whitespace runs collapsed to one space and the ends trimmed.
Normalized(prompt) == JoinWords(WordsOf(prompt))

HeaderOf(line) ==
    IF Includes(line, "Current session") THEN "session"
    ELSE IF Includes(line, "Current week") /\ Includes(line, "all models") THEN "weekAll"
    ELSE IF Includes(line, "Current week") /\ Includes(line, "Sonnet") THEN "weekSonnet"
    ELSE ""

\* The section of the most recent header at or before line i, "" if none.
SectionAt(lines, i) ==
    LET headers == {j \in 1..i : HeaderOf(lines[j]) # ""}
    IN  IF headers = {} THEN ""
        ELSE HeaderOf(lines[CHOOSE j \in headers : \A k \in headers : k <= j])

\* The "N% used" lines under the headers of a section.
UsedLines(lines, section) ==
    {i \in 1..Len(lines) : HasPercentUsed(lines[i]) /\ SectionAt(lines, i) = section}

\* What a bucket holds after every "N% used" line of its section has set it.
BucketOf(lines, section, name) ==
    LET at == UsedLines(lines, section)
    IN  IF at = {} THEN NullLimit
        ELSE LET i == CHOOSE j \in at : \A k \in at : k <= j
                 after == IF i < Len(lines) THEN lines[i + 1] ELSE <<>>
             IN  [name |-> name,
                  percentUsed |-> IF Includes(lines[i], "42% used") THEN 42 ELSE 7,
                  resetTime |->
                      IF Includes(after, "Resets 7:59am (America/New_York)") THEN "7:59am"
                      ELSE IF Includes(after, "Resets Jan 9 at 9:59pm") THEN "Jan 9 at 9:59pm"
                      ELSE "",
                  resetTimezone |->
                      IF Includes(after, "Resets 7:59am (America/New_York)")
                      THEN "America/New_York" ELSE Undefined]

ExampleOutput ==
    << <<"Current session">>, <<"42% used">>, <<"Resets 7:59am (America/New_York)">> >>

ExampleLimit ==
    [name |-> "Current Session", percentUsed |-> 42, resetTime |-> "7:59am",
     resetTimezone |-> "America/New_York"]

Denied(name) ==
    \/ name \in SKIP_DIRECTORIES
    \/ StartsWithDot(name) /\ name # ".env.example"

\* No node, and no directory above a node, has a denied name.
NoDeniedNode ==
    \A n \in fsResult.nodes : \A i \in 1..Len(n.path) : ~Denied(n.path[i])

\* No node lies deeper than maxDepth + 1 levels below the root.
WithinDepth == \A n \in fsResult.nodes : Len(n.path) <= fsMaxDepth + 1

\* C16: for every directory tree and every max depth the returned tree has
\* no node whose name is in the denylist or starts with "." (other than
\* ".env.example"), nothing beneath a skipped directory, and no node deeper
\* than max depth + 1 levels below the root.
C16_WalkSkipsAndIsBounded == fsResult.done => NoDeniedNode /\ WithinDepth

(***************************************************************************)
(*                  Claims on the agent runner and its stream              *)
(***************************************************************************)
FramesOfType(frames, type) == {i \in DOMAIN frames : frames[i].type = type}

\* C17: the frames of a stream hold a connected event exactly once, as the
\* first frame, and that event carries the resolved session id, which is
\* also the one the complete event names.
C17_ConnectedCarriesSessionId ==
    skRes.frames # <<>> =>
        /\ FramesOfType(skRes.frames, "connected") = {1}
        /\ skRes.frames[1].sessionId = skCall.session
        /\ \A i \in FramesOfType(skRes.frames, "complete") :
                skRes.frames[i].sessionId = skRes.frames[1].sessionId

TerminalFrames(frames) ==
    FramesOfType(frames, "complete") \cup FramesOfType(frames, "error")

\* The model call of the current round has been answered.
Answered(call) == Len(call.responses) = call.round

RequestsTools(response) == response.stop_reason = "tool_use"

\* The runner has stopped calling the model after an answer.
Stopped(call) == call.pc \in {"end", "done"} /\ Answered(call)

InRound(call) == call.pc \in {"tool_use", "tool_result", "tool"}

RECURSIVE ToolsOf(_)
ToolsOf(responses) ==
    IF responses = <<>> THEN <<>>
    ELSE Head(responses).tools \o ToolsOf(Tail(responses))

RECURSIVE TurnsOf(_)
TurnsOf(responses) ==
    IF responses = <<>> THEN <<>>
    ELSE <<[role |-> "assistant", ids |-> Head(responses).tools],
           [role |-> "user", ids |-> Head(responses).tools]>>
         \o TurnsOf(Tail(responses))

\* The rounds of a call: the answers that requested tool use, and those of
\* them whose tool loop is over.
Rounds(call) == SelectSeq(call.responses, RequestsTools)

RoundsDone(call) ==
    IF InRound(call) /\ Rounds(call) # <<>>
    THEN SubSeq(Rounds(call), 1, Len(Rounds(call)) - 1)
    ELSE Rounds(call)

\* The blocks of the round in progress that have been executed.
BlocksDone(call) ==
    IF InRound(call) THEN SubSeq(call.response.tools, 1, call.idx - 1) ELSE <<>>

ToolLoop(call, messages, tools) ==
    /\ \A i \in 1..Len(call.responses) :
            RequestsTools(call.responses[i])
                <=> ~(i = Len(call.responses) /\ Stopped(call))
    /\ tools = ToolsOf(RoundsDone(call)) \o BlocksDone(call)
    /\ LET turns == TurnsOf(RoundsDone(call))
           first == Len(messages) - Len(turns)
       IN  /\ first >= 0
           /\ SubSeq(messages, first + 1, Len(messages)) = turns
           /\ \A i \in 1..first : messages[i].ids = <<>>

IsToolFrame(frame) == frame.type \in {"tool_use", "tool_result"}

ToolFramesPaired ==
    LET frames == SelectSeq(skRes.frames, IsToolFrame)
    IN  /\ \A i \in 1..Len(frames) :
            IF i % 2 = 1
            THEN frames[i].type = "tool_use"
            ELSE /\ frames[i].type = "tool_result"
                 /\ frames[i].id = frames[i - 1].id
        /\ Len(frames) % 2 = 1 => skCall.pc = "tool_result"

\* C19: both runners call the model again exactly after an answer that
\* requests tool use; the tool_use blocks of every such answer are executed
\* once each in block order, the next input ends with the answer and one
\* tool_result per block under the same ids, and in a stream every tool_use
\* frame is followed by the tool_result frame of the same id.
C19_ToolLoop ==
    /\ ToolLoop(skCall, skMessages, skTools)
    /\ ToolLoop(tkCall, tkMessages, tkTools)
    /\ ToolFramesPaired

(***************************************************************************)
(*             Claims on the terminal manager's lookups                    *)
(***************************************************************************)
LookupOps == {"write", "resize", "kill"}

\* Every session but `id` keeps its entry, and every pty but the one
\* registered for `id` is as it was.
OthersUntouched(id) ==
    /\ \A other \in SessionIds \ {id} : sessions'[other] = sessions[other]
    /\ \A p \in PtyIds \ {sessions[id]} : ptys'[p] = ptys[p]

\* C20: write, resize and kill on an id that is not in the map return false
\* and change neither the map nor any pty; on an id in the map they return
\* true and leave every other session and pty as it was, and kill removes
\* the entry of that id.
C20_LookupsReturnBooleans ==
    [][\A id \in SessionIds :
        (tmLast'.op \in LookupOps /\ tmLast'.id = id) =>
            IF sessions[id] = NoPty
            THEN tmLast'.ret = FALSE /\ UNCHANGED <<sessions, ptys>>
            ELSE /\ tmLast'.ret = TRUE
                 /\ OthersUntouched(id)
                 /\ tmLast'.op = "kill" => sessions'[id] = NoPty]_vars

\* write on an id that is not in the map has returned false while another
\* session is registered with input written to its pty.
C20_Witness ==
    /\ tmLast = [op |-> "write", id |-> "s1", ret |-> FALSE]
    /\ sessions["s1"] = NoPty
    /\ sessions["s2"] # NoPty
    /\ ptys[sessions["s2"]].input = "ls"

(***************************************************************************)
(*                  Claims on the agent router                             *)
(***************************************************************************)
\* The step answers, or starts to serve, a new request.
RequestStep == htLast'.n = htLast.n + 1

\* The step calls no method of the agent service.
ServiceNotInvoked ==
    UNCHANGED <<agSessions, agCalls, skCall, skMessages, skRes, skTools,
                tkCall, tkMessages, tkTools, tkLast>>

\* executeTask throws in this step.
ExecuteTaskThrows ==
    /\ tkCall.pc = "model"
    /\ tkCall'.pc = "done"
    /\ tkLast'.outcome = "threw"

\* C21: a task or stream request without a task is answered 400; one with a
\* task while the API key is not configured is answered 503 without any call
\* of the agent service; clearing or fetching an unknown session id is
\* answered 404; an exception of executeTask is answered 500 with the
\* error's message.
C21_HttpErrorTaxonomy ==
    [][/\ (RequestStep /\ htLast'.route \in {"task", "stream"}) =>
            /\ ~htLast'.task => htLast'.status = 400 /\ ServiceNotInvoked
            /\ (htLast'.task /\ ~cfgApiKey) =>
                    htLast'.status = 503 /\ ServiceNotInvoked
       /\ (RequestStep /\ htLast'.route \in {"clear", "get"}
                       /\ ~agSessions[htLast'.id].exists) =>
            htLast'.status = 404
       /\ ExecuteTaskThrows =>
            /\ htLast'.route = "task"
            /\ htLast'.status = 500
            /\ htLast'.message = "error.message"]_vars

(***************************************************************************)
(*                     Claims on the bash tool                             *)
(***************************************************************************)
Markers(segments) == {i \in DOMAIN segments : segments[i].kind = "marker"}

Chunks(segments) == {i \in DOMAIN segments : segments[i].kind = "chunk"}

\* The last data event carried a chunk that would have taken stdout past
\* the cap, while the call had not been answered yet.
OverCap ==
    /\ bhLast.before + bhLast.length > MAX_OUTPUT_SIZE
    /\ ~bhLast.settled

\* C22: once a chunk would take stdout past 100KB the process is killed and
\* stdout holds the truncation marker exactly once; no chunk stands after
\* the marker.
C22_OutputCapped ==
    /\ Cardinality(Markers(bhStdout)) <= 1
    /\ OverCap => bhKilled /\ bhProc # "running"
    /\ (OverCap /\ bhLast.before <= MAX_OUTPUT_SIZE) =>
            Cardinality(Markers(bhStdout)) = 1
    /\ \A i \in Markers(bhStdout) : \A j \in Chunks(bhStdout) : j < i

(***************************************************************************)
(* C23: lenient transcript parsing                                         *)
(***************************************************************************)

\* A line that is not a JSON object, or an object holding null where a
\* content block is expected.
Malformed(line) == line.json # "object" \/ HasNull(line.blocks)

WellFormed(transcript) == SelectSeq(transcript, LAMBDA line : ~Malformed(line))

\* C23: the metadata and the messages read from a transcript are those of
\* the same transcript with its malformed lines removed.
C23_MalformedLinesContributeNothing ==
    /\ trMeta.done => trMeta.value = parseClaudeCodeSession(WellFormed(trLines))
    /\ trChat.done => trChat.value = getSessionMessages(WellFormed(trLines))

(***************************************************************************)
(* C24: session store persistence                                          *)
(***************************************************************************)

\* The step is a call of upsert, of updateUsage on a known id or of delete on
\* a known id: each of them changes the map and calls save().
Mutation == stLast'.saved /\ stSessions' # stSessions

WriteFailed == stFailures' # stFailures

\* What the mutation of the step does to the map.
MutationApplied ==
    LET id == stLast'.id
    IN  /\ stLast'.op = "upsert" /\ stLast'.known =>
                /\ StHas(stSessions', id)
                /\ stSessions'[StIndex(stSessions', id)].messageCount
                     = StGet(id).messageCount + 1
        /\ stLast'.op = "upsert" /\ ~stLast'.known =>
                ~StHas(stSessions, id) /\ StHas(stSessions', id)
        /\ stLast'.op = "updateUsage" =>
                /\ StHas(stSessions', id)
                /\ stSessions'[StIndex(stSessions', id)].input
                     + stSessions'[StIndex(stSessions', id)].output
                     > StGet(id).input + StGet(id).output
        /\ stLast'.op = "delete" =>
                StHas(stSessions, id) /\ ~StHas(stSessions', id)

\* C24: a mutation whose write succeeds leaves sessions.json holding exactly
\* the sessions of the map; one whose write fails is applied to the map all
\* the same and leaves the file as it was; the fallback totals are read from
\* the map, whatever the file holds.
C24_PersistsWholeMap ==
    [][ /\ Mutation => MutationApplied
        /\ (Mutation /\ ~WriteFailed) =>
                stFile' = [exists |-> TRUE, data |-> stSessions']
        /\ (Mutation /\ WriteFailed) => stFile' = stFile
        /\ (stLast'.op = "getTotalUsage" /\ stLast'.stats = "absent"
                /\ stLast' # stLast) =>
                stLast'.ret = SessionTotals(stSessions) ]_vars

\* A write failed, a later one succeeded, and the file holds the map again.
C24_Witness ==
    /\ stFailures > 0
    /\ stLast.saved
    /\ Len(stSessions) >= 1
    /\ stFile = [exists |-> TRUE, data |-> stSessions]

(***************************************************************************)
(* C25: a timeout removes only its own command                             *)
(***************************************************************************)

\* The step is the timeout callback of command c: its timer leaves the armed
\* set while no settle timer runs and no process exits.
TimeoutStepOf(c) ==
    /\ c \in usTimeouts
    /\ c \notin usTimeouts'
    /\ usSettle' = usSettle
    /\ usProcs' = usProcs

Queued(queue, d) == \E i \in 1..Len(queue) : queue[i] = d

\* C25: when the timeout of a command fires, every other command that was
\* queued is still queued or has become the current command, and another
\* command that was current stays current.
C25_TimeoutRemovesOwnEntry ==
    [][ \A c \in CmdIds : TimeoutStepOf(c) =>
            \A d \in CmdIds \ {c} :
                /\ Queued(usQueue, d) => Queued(usQueue', d) \/ usCurrent' = d
                /\ usCurrent = d => usCurrent' = d ]_vars

(***************************************************************************)
(* C28: ready only on the running process's own ready hint                 *)
(***************************************************************************)

\* C28: whenever the terminal becomes ready, the ready hint stands in output
\* that the process the service then holds has written.
C28_ReadyFromRunningProcess ==
    [][ (~usReady /\ usReady') =>
            /\ usPty' # NoProc
            /\ usProcs'[usPty'] = "running"
            /\ usPty' \in usBuf'.marked ]_vars

(***************************************************************************)
(* C27: one persistent pty process                                         *)
(***************************************************************************)

LiveProcs == {p \in ProcIds : usProcs[p] = "running"}

\* C27: at most one "claude" process is running, it is the one this.pty
\* refers to, and this.pty refers to no process that is gone.
C27_OneLiveProcess ==
    /\ Cardinality(LiveProcs) <= 1
    /\ \A p \in LiveProcs : usPty = p
    /\ usPty # NoProc => usPty \in LiveProcs

(***************************************************************************)
(* C26: every accepted command settles                                     *)
(***************************************************************************)

Settled(c) == usCmds[c].status \in {"resolved", "timeout", "exited"}

\* C26: every command runCommand accepted settles in the end, as resolved,
\* as rejected by its timeout or as rejected by the exit of the process, and
\* a settled command stays as it settled.
C26_EveryCommandSettles ==
    /\ \A c \in CmdIds : (usCmds[c].status = "pending") ~> Settled(c)
    /\ [][\A c \in CmdIds : Settled(c) => usCmds'[c].status = usCmds[c].status]_vars

\* Three accepted commands have settled, one in each of the three ways.
C26_Witness ==
    \E a, b, c \in CmdIds :
        /\ usCmds[a].status = "resolved"
        /\ usCmds[b].status = "timeout"
        /\ usCmds[c].status = "exited"

(***************************************************************************)
(* C29: the stored conversation alternates                                 *)
(***************************************************************************)

RoleAt(i) == IF i % 2 = 1 THEN "user" ELSE "assistant"

Alternates(messages) == \A i \in DOMAIN messages : messages[i] = RoleAt(i)

\* C29: in every session the stored messages read user, assistant, user, ...
\* and so does the history each runner sends to the model API.
C29_MessagesAlternate ==
    /\ \A id \in AgIds : agSessions[id].exists => Alternates(agSessions[id].messages)
    /\ Alternates([i \in DOMAIN tkMessages |-> tkMessages[i].role])
    /\ Alternates([i \in DOMAIN skMessages |-> skMessages[i].role])

(***************************************************************************)
(* C30: a connection's close reaches only its own pty                      *)
(***************************************************************************)

\* The close or error handler of connection c runs in the step.
ClosesOrErrors(c) ==
    /\ wsConns[c].state \in {"open", "errored", "closing"}
    /\ wsConns'[c].state \in {"errored", "closed"}
    /\ wsConns'[c].state # wsConns[c].state

\* The exit event of pty p is delivered in the step.
ExitEventOf(p) == ptys[p].state \in {"running", "killed"} /\ ptys'[p].state = "exited"

\* Every pty other than p is as it was, and still registered if it was.
OthersKept(p) ==
    \A q \in PtyIds \ {p} :
        /\ ptys'[q] = ptys[q]
        /\ (ptys[q].state = "running" /\ sessions[ptys[q].sid] = q) =>
                sessions'[ptys[q].sid] = q

\* C30: the close or the error of a connection, and the exit event of a pty,
\* leave every pty created for another connection alive and registered.
C30_CloseKillsOwnPty ==
    [][ /\ \A c \in ConnIds : ClosesOrErrors(c) => OthersKept(wsConns[c].pty)
        /\ \A p \in PtyIds : ExitEventOf(p) => OthersKept(p) ]_vars

====
